---- MODULE Spec2Model ----
(***************************************************************************)
(* A model of the Telegram adaptive fingerprinting strategy                *)
(* (src/src/telegram_strategy.ts), of the environment probe it shares with *)
(* src/src/sources/webview.ts, and of the behavioral collector             *)
(* (src/unnamed/part_001, class BehavioralCollector and the module-level   *)
(* getBehavioralFingerprint).                                              *)
(*                                                                         *)
(* Conventions.                                                            *)
(*  - A JavaScript string is a sequence of one-character strings, so that  *)
(*    toLowerCase, includes, startsWith, charCodeAt and JSON.stringify are *)
(*    computed character by character.                                     *)
(*  - A JavaScript value is a record [t, v]: t is the typeof tag ("null"   *)
(*    for null), v the payload; an object's payload is its property list   *)
(*    in insertion order, a sequence of <<key, value>> pairs.              *)
(*  - Confidence scores and factors are decimals with at most three        *)
(*    places and are held in thousandths (0.5 is 500); the IEEE rounding   *)
(*    of the last binary digit is not modelled.  Weights are held in       *)
(*    hundredths (0.8 is 80).                                              *)
(***************************************************************************)
EXTENDS Integers, Sequences, FiniteSets, TLC

VARIABLES
    navigator,      \* [userAgent]: navigator.userAgent
    window,         \* [Telegram, TelegramWebviewProxy]: the host-injected globals
    components,     \* the caller's component bag: <<key, value>> pairs in insertion order
    detected,       \* results returned by detectTelegramEnvironment, in call order
    confidence,     \* results returned by calculateEnhancedConfidence, in call order
    fingerprint,    \* calls of generateEnhancedFingerprint: [input, digest, during], in call order
    enhanced,       \* results returned by createEnhancedComponents, in call order
    behavioralCollector,  \* the module-level collector: NoCollector or an index of collectors
    collectors,     \* the BehavioralCollector objects constructed so far, by their fields
    targets,        \* document and window: [listeners, removals], the registered
                    \* <<collector, event type>> listeners and the runs of cleanup closures
    timers,         \* the collectors whose setTimeout callback is pending
    microtasks,     \* the promise jobs queued, in order
    requests,       \* the calls of getBehavioralFingerprint, in call order
    now,            \* the clock of event.timeStamp and Date.now()
    dispatched,     \* history, where it is kept: the events the browser dispatched
    observed        \* the last result of getBehavioralFingerprintSync

strategy == <<navigator, window, components, detected, confidence, fingerprint, enhanced>>

collection == <<behavioralCollector, collectors, targets, timers, microtasks, requests, now, dispatched, observed>>

vars == <<navigator, window, components, detected, confidence, fingerprint, enhanced,
          behavioralCollector, collectors, targets, timers, microtasks, requests, now, dispatched, observed>>

(***************************************************************************)
(* Bounds of the model.                                                    *)
(***************************************************************************)
\* how many calls of generateEnhancedFingerprint a behaviour makes
MaxCalls == 2
\* how many components the bags scored by calculateEnhancedConfidence hold at most
MaxComponents == 4
\* how many entries the bags given to generateEnhancedFingerprint hold at most
MaxEntries == 2
\* how many calls of getBehavioralFingerprint a behaviour makes
MaxRequests == 2
\* how many events a behaviour dispatches
MaxEvents == 2
\* how many components of unexpected shape a scored bag holds at most
MaxMalformed == 2
\* how many characters a string hashed on its own has at most
MaxChars == 7
\* how many touch events a window reduced on its own holds at most
MaxTouches == 3

(***************************************************************************)
(* Strings.                                                                *)
(***************************************************************************)
\* the printable ASCII characters, in code order starting at code 32 (code 96,
\* the grave accent, is spelled out: it cannot be written in a string here)
Printable ==
    <<" ", "!", "\"", "#", "$", "%", "&", "'", "(", ")", "*", "+", ",", "-", ".", "/",
      "0", "1", "2", "3", "4", "5", "6", "7", "8", "9", ":", ";", "<", "=", ">", "?",
      "@", "A", "B", "C", "D", "E", "F", "G", "H", "I", "J", "K", "L", "M", "N", "O",
      "P", "Q", "R", "S", "T", "U", "V", "W", "X", "Y", "Z", "[", "\\", "]", "^", "_",
      "GRAVE", "a", "b", "c", "d", "e", "f", "g", "h", "i", "j", "k", "l", "m", "n", "o",
      "p", "q", "r", "s", "t", "u", "v", "w", "x", "y", "z", "{", "|", "}", "~">>

Chars == {Printable[i] : i \in 1..Len(Printable)}

\* String.prototype.charCodeAt for one character
CharCode == [c \in Chars |-> 31 + (CHOOSE i \in 1..Len(Printable) : Printable[i] = c)]

\* String.prototype.toLowerCase
LowerChar == [c \in Chars |->
                 IF CharCode[c] >= 65 /\ CharCode[c] <= 90
                 THEN Printable[CharCode[c] + 32 - 31]
                 ELSE c]

toLowerCase(s) == [i \in 1..Len(s) |-> LowerChar[s[i]]]

\* whether sub occurs in s at position i (1-based)
OccursAt(s, sub, i) ==
    /\ i + Len(sub) - 1 <= Len(s)
    /\ \A j \in 1..Len(sub) : s[i + j - 1] = sub[j]

\* String.prototype.includes
includes(s, sub) == \E i \in 1..(Len(s) + 1) : OccursAt(s, sub, i)

\* String.prototype.startsWith
startsWith(s, prefix) == OccursAt(s, prefix, 1)

\* RegExp.prototype.test of a literal pattern under the i flag
TestIgnoreCase(pattern, s) == includes(toLowerCase(s), toLowerCase(pattern))

(***************************************************************************)
(* JavaScript values.                                                      *)
(***************************************************************************)
Undefined == [t |-> "undefined", v |-> FALSE]
Null == [t |-> "null", v |-> FALSE]
Bool(b) == [t |-> "boolean", v |-> b]
Num(n) == [t |-> "number", v |-> n]
Str(s) == [t |-> "string", v |-> s]
Obj(props) == [t |-> "object", v |-> props]

\* ToBoolean: what if (x), x || y, x && y and !!x test
Truthy(x) ==
    CASE x.t = "undefined" -> FALSE
      [] x.t = "null" -> FALSE
      [] x.t = "boolean" -> x.v
      [] x.t = "number" -> x.v # 0
      [] x.t = "string" -> x.v # <<>>
      [] OTHER -> TRUE

\* a === b, for primitives
StrictEquals(a, b) == a.t = b.t /\ a.v = b.v

\* a || b
OrElse(a, b) == IF Truthy(a) THEN a ELSE b

\* (key in obj) on a property list
HasKey(props, key) == \E i \in 1..Len(props) : props[i][1] = key

\* obj[key] on a property list: undefined when the key is absent
Lookup(props, key) ==
    IF HasKey(props, key)
    THEN props[CHOOSE i \in 1..Len(props) : props[i][1] = key][2]
    ELSE Undefined

\* x?.key, and x.key on a non-null x: a primitive has none of the fields read here
Get(x, key) == IF x.t = "object" THEN Lookup(x.v, key) ELSE Undefined

(***************************************************************************)
(* String literals of the source.                                          *)
(***************************************************************************)
\* markers tested against the user agent
s_telegram == <<"t", "e", "l", "e", "g", "r", "a", "m">>
s_telegramwebview == <<"t", "e", "l", "e", "g", "r", "a", "m", "w", "e", "b", "v", "i", "e", "w">>
\* component keys
s_canvas == <<"c", "a", "n", "v", "a", "s">>
s_audio == <<"a", "u", "d", "i", "o">>
s_fonts == <<"f", "o", "n", "t", "s">>
s_webGlBasics == <<"w", "e", "b", "G", "l", "B", "a", "s", "i", "c", "s">>
s_webGlExtensions == <<"w", "e", "b", "G", "l", "E", "x", "t", "e", "n", "s", "i", "o", "n", "s">>
s_platform == <<"p", "l", "a", "t", "f", "o", "r", "m">>
s_hardwareConcurrency == <<"h", "a", "r", "d", "w", "a", "r", "e", "C", "o", "n", "c", "u", "r", "r", "e", "n", "c", "y">>
s_deviceMemory == <<"d", "e", "v", "i", "c", "e", "M", "e", "m", "o", "r", "y">>
s_screenResolution == <<"s", "c", "r", "e", "e", "n", "R", "e", "s", "o", "l", "u", "t", "i", "o", "n">>
s_screenFrame == <<"s", "c", "r", "e", "e", "n", "F", "r", "a", "m", "e">>
s_timezone == <<"t", "i", "m", "e", "z", "o", "n", "e">>
s_telegramWebApp == <<"t", "e", "l", "e", "g", "r", "a", "m", "W", "e", "b", "A", "p", "p">>
s_behavioral == <<"b", "e", "h", "a", "v", "i", "o", "r", "a", "l">>
s_webView == <<"w", "e", "b", "V", "i", "e", "w">>
s_network == <<"n", "e", "t", "w", "o", "r", "k">>
s_haptic == <<"h", "a", "p", "t", "i", "c">>
s_languages == <<"l", "a", "n", "g", "u", "a", "g", "e", "s">>
s_colorDepth == <<"c", "o", "l", "o", "r", "D", "e", "p", "t", "h">>
s_touchSupport == <<"t", "o", "u", "c", "h", "S", "u", "p", "p", "o", "r", "t">>
s_vendor == <<"v", "e", "n", "d", "o", "r">>
s_vendorFlavors == <<"v", "e", "n", "d", "o", "r", "F", "l", "a", "v", "o", "r", "s">>
s_osCpu == <<"o", "s", "C", "p", "u">>
s_plugins == <<"p", "l", "u", "g", "i", "n", "s">>
s_colorGamut == <<"c", "o", "l", "o", "r", "G", "a", "m", "u", "t">>
s_reducedMotion == <<"r", "e", "d", "u", "c", "e", "d", "M", "o", "t", "i", "o", "n">>
\* fields read inside components, and the reserved keys
s_value == <<"v", "a", "l", "u", "e">>
s_isTelegramWebView == <<"i", "s", "T", "e", "l", "e", "g", "r", "a", "m", "W", "e", "b", "V", "i", "e", "w">>
s_telegramVersion == <<"t", "e", "l", "e", "g", "r", "a", "m", "V", "e", "r", "s", "i", "o", "n">>
s_webViewType == <<"w", "e", "b", "V", "i", "e", "w", "T", "y", "p", "e">>
s_isWebView == <<"i", "s", "W", "e", "b", "V", "i", "e", "w">>
s_isAvailable == <<"i", "s", "A", "v", "a", "i", "l", "a", "b", "l", "e">>
s_isTelegramHaptic == <<"i", "s", "T", "e", "l", "e", "g", "r", "a", "m", "H", "a", "p", "t", "i", "c">>
s_touchPatterns == <<"t", "o", "u", "c", "h", "P", "a", "t", "t", "e", "r", "n", "s">>
s_motionSignature == <<"m", "o", "t", "i", "o", "n", "S", "i", "g", "n", "a", "t", "u", "r", "e">>
s_connectionInfo == <<"c", "o", "n", "n", "e", "c", "t", "i", "o", "n", "I", "n", "f", "o">>
s_ipBasedEntropy == <<"i", "p", "B", "a", "s", "e", "d", "E", "n", "t", "r", "o", "p", "y">>
s_networkPerformance == <<"n", "e", "t", "w", "o", "r", "k", "P", "e", "r", "f", "o", "r", "m", "a", "n", "c", "e">>
s_networkQuality == <<"n", "e", "t", "w", "o", "r", "k", "Q", "u", "a", "l", "i", "t", "y">>
s_hasHapticFeedback == <<"h", "a", "s", "H", "a", "p", "t", "i", "c", "F", "e", "e", "d", "b", "a", "c", "k">>
s_hasBehavioralData == <<"h", "a", "s", "B", "e", "h", "a", "v", "i", "o", "r", "a", "l", "D", "a", "t", "a">>
s__weights == <<"_", "w", "e", "i", "g", "h", "t", "s">>
s__telegramContext == <<"_", "t", "e", "l", "e", "g", "r", "a", "m", "C", "o", "n", "t", "e", "x", "t">>
\* other literals
s_unknown == <<"u", "n", "k", "n", "o", "w", "n">>
s_iPhone == <<"i", "P", "h", "o", "n", "e">>
s_iPad == <<"i", "P", "a", "d">>
s_Android == <<"A", "n", "d", "r", "o", "i", "d">>
s_version == <<"v", "e", "r", "s", "i", "o", "n">>
s_webview == <<"w", "e", "b", "v", "i", "e", "w">>
s_true == <<"t", "r", "u", "e">>
s_false == <<"f", "a", "l", "s", "e">>
s_null == <<"n", "u", "l", "l">>
s_undefined == <<"u", "n", "d", "e", "f", "i", "n", "e", "d">>
s_objectObject == <<"[", "o", "b", "j", "e", "c", "t", " ", "O", "b", "j", "e", "c", "t", "]">>

(***************************************************************************)
(* The environment: navigator.userAgent and the globals on window.         *)
(***************************************************************************)
ua_Chrome == <<"M", "o", "z", "i", "l", "l", "a", "/", "5", ".", "0", " ", "C", "h", "r", "o", "m", "e", "/", "1", "2", "0", ".", "0">>
ua_TelegramWebview == <<"M", "o", "z", "i", "l", "l", "a", "/", "5", ".", "0", " ", "T", "e", "l", "e", "g", "r", "a", "m", "W", "e", "b", "v", "i", "e", "w", "/", "9", ".", "1">>
ua_TELEGRAM == <<"T", "E", "L", "E", "G", "R", "A", "M", "-", "A", "n", "d", "r", "o", "i", "d", "/", "1", "0", ".", "2">>
ua_Telegraph == <<"M", "o", "z", "i", "l", "l", "a", "/", "5", ".", "0", " ", "T", "e", "l", "e", "g", "r", "a", "p", "h">>
ua_tElEgRaM == <<"S", "a", "f", "a", "r", "i", " ", "t", "E", "l", "E", "g", "R", "a", "M">>
ua_Empty == <<>>

UserAgents == {ua_Chrome, ua_TelegramWebview, ua_TELEGRAM, ua_Telegraph, ua_tElEgRaM, ua_Empty}

\* window.Telegram: undefined, an object without WebApp, or an object with WebApp
TelegramGlobals == {"undefined", "noWebApp", "WebApp"}

Navigators == [userAgent : UserAgents]
Windows == [Telegram : TelegramGlobals, TelegramWebviewProxy : BOOLEAN]

\* window.Telegram?.WebApp !== undefined
HasWebApp == window.Telegram = "WebApp"

\* the strategy's detector without case folding
detectTelegramEnvironmentCaseSensitive ==
    \/ includes(navigator.userAgent, s_telegramwebview)
    \/ includes(navigator.userAgent, s_telegram)
    \/ HasWebApp

\* TelegramAdaptiveStrategyImpl.detectTelegramEnvironment
detectTelegramEnvironment ==
    LET ua == toLowerCase(navigator.userAgent)
    IN \/ TestIgnoreCase(s_telegramwebview, ua)
       \/ TestIgnoreCase(s_telegram, ua)
       \/ HasWebApp

(***************************************************************************)
(* The weight tables (adjustSourceWeights), in hundredths.                 *)
(***************************************************************************)
\* baseWeights as first written: the default weights for all sources
baseWeights ==
    << <<s_canvas, 80>>, <<s_audio, 60>>, <<s_fonts, 70>>,
       <<s_webGlBasics, 70>>, <<s_webGlExtensions, 70>>,
       <<s_platform, 100>>, <<s_hardwareConcurrency, 100>>, <<s_deviceMemory, 100>>,
       <<s_screenResolution, 90>>, <<s_screenFrame, 90>>, <<s_timezone, 120>>,
       <<s_telegramWebApp, 100>>, <<s_behavioral, 100>>, <<s_webView, 100>>,
       <<s_network, 100>>, <<s_haptic, 100>>,
       <<s_languages, 110>>, <<s_colorDepth, 100>>, <<s_touchSupport, 110>>,
       <<s_vendor, 90>>, <<s_vendorFlavors, 90>>, <<s_osCpu, 100>> >>

\* telegramWeights: the overrides for the Telegram environment
telegramWeights ==
    << <<s_canvas, 40>>, <<s_audio, 30>>, <<s_fonts, 50>>, <<s_plugins, 10>>,
       <<s_telegramWebApp, 250>>, <<s_webView, 200>>, <<s_behavioral, 220>>,
       <<s_haptic, 180>>, <<s_network, 160>>,
       <<s_platform, 130>>, <<s_vendor, 120>>, <<s_vendorFlavors, 150>>,
       <<s_timezone, 140>>, <<s_languages, 130>>,
       <<s_touchSupport, 140>>, <<s_colorGamut, 110>>, <<s_reducedMotion, 110>>,
       <<s_hardwareConcurrency, 120>>, <<s_deviceMemory, 120>>,
       <<s_screenResolution, 110>> >>

\* obj[key] = value: an existing key keeps its position, a new key is appended
SetProp(props, key, value) ==
    IF HasKey(props, key)
    THEN [i \in 1..Len(props) |-> IF props[i][1] = key THEN <<key, value>> ELSE props[i]]
    ELSE Append(props, <<key, value>>)

\* Object.assign(target, source) restricted to the first n properties of source
RECURSIVE AssignFirst(_, _, _)
AssignFirst(target, source, n) ==
    IF n = 0 THEN target
    ELSE SetProp(AssignFirst(target, source, n - 1), source[n][1], source[n][2])

\* a merge that keeps the target and ignores the source
ObjectAssignNothing(target, source) == target

\* a merge that replaces the target by the source
ObjectAssignReplace(target, source) == source

\* Object.assign(target, source)
ObjectAssign(target, source) == AssignFirst(target, source, Len(source))

\* the table adjustSourceWeights builds: baseWeights, merged with
\* telegramWeights when the environment is Telegram
adjustedWeights(isTelegram) ==
    IF isTelegram THEN ObjectAssign(baseWeights, telegramWeights) ELSE baseWeights

(***************************************************************************)
(* extractTelegramContext.                                                 *)
(***************************************************************************)
\* ('key' in components) ? components.key : null
ComponentOrNull(comps, key) == IF HasKey(comps, key) THEN Lookup(comps, key) ELSE Null

extractTelegramContext(comps) ==
    LET telegramData == ComponentOrNull(comps, s_telegramWebApp)
        webViewData == ComponentOrNull(comps, s_webView)
        hapticData == ComponentOrNull(comps, s_haptic)
        behavioralData == ComponentOrNull(comps, s_behavioral)
        networkData == ComponentOrNull(comps, s_network)
    IN [isTelegramWebView |-> OrElse(Get(telegramData, s_isTelegramWebView), Bool(FALSE)),
        telegramVersion |-> OrElse(Get(telegramData, s_telegramVersion), Null),
        webViewType |-> OrElse(Get(webViewData, s_webViewType), Str(s_unknown)),
        hasHapticFeedback |-> OrElse(Get(hapticData, s_isAvailable), Bool(FALSE)),
        hasBehavioralData |->
            Bool(Truthy(OrElse(Get(behavioralData, s_touchPatterns),
                               Get(behavioralData, s_motionSignature)))),
        networkQuality |->
            OrElse(Get(Get(networkData, s_networkPerformance), s_networkQuality),
                   Str(s_unknown))]

\* the context as the object stored under _telegramContext
ContextObject(context) ==
    Obj(<< <<s_isTelegramWebView, context.isTelegramWebView>>,
           <<s_telegramVersion, context.telegramVersion>>,
           <<s_webViewType, context.webViewType>>,
           <<s_hasHapticFeedback, context.hasHapticFeedback>>,
           <<s_hasBehavioralData, context.hasBehavioralData>>,
           <<s_networkQuality, context.networkQuality>> >>)

\* the weight table as the object stored under _weights
WeightsObject(weights) ==
    Obj([i \in 1..Len(weights) |-> <<weights[i][1], Num(weights[i][2])>>])

\* adjustSourceWeights: {...components, _weights, _telegramContext}
adjustSourceWeights(comps) ==
    LET isTelegram == detectTelegramEnvironment
        weights == adjustedWeights(isTelegram)
        telegramContext == extractTelegramContext(comps)
    IN SetProp(SetProp(comps, s__weights, WeightsObject(weights)),
               s__telegramContext, ContextObject(telegramContext))

(***************************************************************************)
(* getEnhancedConfidenceScore, in thousandths.                             *)
(***************************************************************************)
Min(a, b) == IF a <= b THEN a ELSE b
Max(a, b) == IF a >= b THEN a ELSE b

\* a guard that tests the key only
PresentIfKey(comps, key) == HasKey(comps, key)

\* ('key' in components && components.key): the component when it is truthy
Present(comps, key) == HasKey(comps, key) /\ Truthy(Lookup(comps, key))

\* baseScore: the default confidence and the platform-based adjustment
baseScoreOf(comps) ==
    IF Present(comps, s_platform)
    THEN LET platformComponent == Lookup(comps, s_platform)
             platform == OrElse(Get(platformComponent, s_value), platformComponent)
         IN IF platform.t = "string"
            THEN IF includes(platform.v, s_iPhone) \/ includes(platform.v, s_iPad)
                 THEN 500 + 100
                 ELSE IF includes(platform.v, s_Android) THEN 500 + 50 ELSE 500
            ELSE 500
    ELSE 500

\* a behavioral factor that is granted while a collection timer is pending
behavioralFactorOfLive(comps) == IF timers # {} THEN 200 ELSE 0

behavioralFactorOf(comps) ==
    IF Present(comps, s_behavioral)
    THEN LET behavioral == Lookup(comps, s_behavioral)
         IN IF Truthy(OrElse(Get(behavioral, s_touchPatterns),
                             Get(behavioral, s_motionSignature)))
            THEN 200 ELSE 0
    ELSE 0

webViewFactorOf(comps) ==
    IF Present(comps, s_webView)
    THEN LET webView == Lookup(comps, s_webView)
         IN IF Truthy(Get(webView, s_isWebView))
               /\ StrictEquals(Get(webView, s_webViewType), Str(s_telegram))
            THEN 250 ELSE 0
    ELSE 0

\* a haptic factor granted on availability alone
hapticFactorOfAvailable(comps) ==
    IF Present(comps, s_haptic)
    THEN IF Truthy(Get(Lookup(comps, s_haptic), s_isAvailable)) THEN 150 ELSE 0
    ELSE 0

hapticFactorOf(comps) ==
    IF Present(comps, s_haptic)
    THEN LET haptic == Lookup(comps, s_haptic)
         IN IF Truthy(Get(haptic, s_isAvailable)) /\ Truthy(Get(haptic, s_isTelegramHaptic))
            THEN 150 ELSE 0
    ELSE 0

networkFactorOf(comps) ==
    IF Present(comps, s_network)
    THEN LET network == Lookup(comps, s_network)
         IN IF Truthy(Get(network, s_connectionInfo)) /\ Truthy(Get(network, s_ipBasedEntropy))
            THEN 100 ELSE 0
    ELSE 0

\* a stability count with the Telegram unit worth 1.0 instead of 1.5
calculateStabilityScoreUnitDenominator(comps, context) ==
    LET platform == IF HasKey(comps, s_platform) THEN 2 ELSE 0
        timezone == IF HasKey(comps, s_timezone) THEN 2 ELSE 0
        hardware == IF HasKey(comps, s_hardwareConcurrency) /\ HasKey(comps, s_deviceMemory)
                    THEN 2 ELSE 0
        languages == IF HasKey(comps, s_languages) THEN 2 ELSE 0
        isTelegramWebView == Truthy(context.isTelegramWebView)
        version == IF isTelegramWebView /\ Truthy(context.telegramVersion) THEN 2 ELSE 0
        haptic == IF isTelegramWebView /\ Truthy(context.hasHapticFeedback) THEN 1 ELSE 0
        stabilityFactors == platform + timezone + hardware + languages + version + haptic
        totalFactors == platform + timezone + hardware + languages
                        + (IF isTelegramWebView THEN 2 ELSE 0)
    IN IF totalFactors > 0
       THEN [num |-> stabilityFactors, den |-> totalFactors]
       ELSE [num |-> 1, den |-> 2]

\* calculateStabilityScore: the ratio stabilityFactors / totalFactors as the
\* fraction num/den, both counted in halves (1.5 is 3); 0.5 is 1/2
calculateStabilityScore(comps, context) ==
    LET platform == IF HasKey(comps, s_platform) THEN 2 ELSE 0
        timezone == IF HasKey(comps, s_timezone) THEN 2 ELSE 0
        hardware == IF HasKey(comps, s_hardwareConcurrency) /\ HasKey(comps, s_deviceMemory)
                    THEN 2 ELSE 0
        languages == IF HasKey(comps, s_languages) THEN 2 ELSE 0
        isTelegramWebView == Truthy(context.isTelegramWebView)
        version == IF isTelegramWebView /\ Truthy(context.telegramVersion) THEN 2 ELSE 0
        haptic == IF isTelegramWebView /\ Truthy(context.hasHapticFeedback) THEN 1 ELSE 0
        stabilityFactors == platform + timezone + hardware + languages + version + haptic
        totalFactors == platform + timezone + hardware + languages
                        + (IF isTelegramWebView THEN 3 ELSE 0)
    IN IF totalFactors > 0
       THEN [num |-> stabilityFactors, den |-> totalFactors]
       ELSE [num |-> 1, den |-> 2]

\* the final confidence calculation with the browser branch taking the whole sum
finalScoreOfFullSum(isTelegram, context, baseScore, behavioralFactor, webViewFactor, hapticFactor, networkFactor) ==
    IF isTelegram
    THEN Min(900, baseScore + behavioralFactor + webViewFactor + hapticFactor + networkFactor)
         + (IF Truthy(context.hasBehavioralData) /\ Truthy(context.hasHapticFeedback)
            THEN 50 ELSE 0)
    ELSE Min(850, baseScore + behavioralFactor + networkFactor)

\* the final confidence calculation with the browser branch halving the sum
\* of all four factors
finalScoreOfAllFactors(isTelegram, context, baseScore, behavioralFactor, webViewFactor, hapticFactor, networkFactor) ==
    IF isTelegram
    THEN Min(900, baseScore + behavioralFactor + webViewFactor + hapticFactor + networkFactor)
         + (IF Truthy(context.hasBehavioralData) /\ Truthy(context.hasHapticFeedback)
            THEN 50 ELSE 0)
    ELSE Min(850, baseScore
                  + ((behavioralFactor + webViewFactor + hapticFactor + networkFactor) * 5) \div 10)

\* the final confidence calculation: finalScore before the clamp
finalScoreOf(isTelegram, context, baseScore, behavioralFactor, webViewFactor, hapticFactor, networkFactor) ==
    IF isTelegram
    THEN Min(900, baseScore + behavioralFactor + webViewFactor + hapticFactor + networkFactor)
         + (IF Truthy(context.hasBehavioralData) /\ Truthy(context.hasHapticFeedback)
            THEN 50 ELSE 0)
    ELSE Min(850, baseScore + ((behavioralFactor + networkFactor) * 5) \div 10)

\* the returned score without the clamp
clampScoreIdentity(finalScore) == finalScore

\* score: Math.max(0.1, Math.min(0.9, finalScore))
clampScore(finalScore) == Max(100, Min(900, finalScore))

\* the outcome of a call that threw: reading a property of null or undefined
TypeError == [t |-> "TypeError", v |-> FALSE]

\* x.key, read without optional chaining, throws when x is null or undefined
Throws(x) == x.t \in {"null", "undefined"}

\* the reads of getEnhancedConfidenceScore that have no optional chaining:
\* behavioral.touchPatterns, webView.isWebView, haptic.isAvailable and
\* network.connectionInfo, each behind the guard of its component
scorerFaults(comps) ==
    \/ Present(comps, s_behavioral) /\ Throws(Lookup(comps, s_behavioral))
    \/ Present(comps, s_webView) /\ Throws(Lookup(comps, s_webView))
    \/ Present(comps, s_haptic) /\ Throws(Lookup(comps, s_haptic))
    \/ Present(comps, s_network) /\ Throws(Lookup(comps, s_network))

getEnhancedConfidenceScore(comps) ==
    LET isTelegram == detectTelegramEnvironment
        context == extractTelegramContext(comps)
        baseScore == baseScoreOf(comps)
        behavioralFactor == behavioralFactorOf(comps)
        webViewFactor == webViewFactorOf(comps)
        hapticFactor == hapticFactorOf(comps)
        networkFactor == networkFactorOf(comps)
        stabilityScore == calculateStabilityScore(comps, context)
        finalScore == finalScoreOf(isTelegram, context, baseScore, behavioralFactor,
                                   webViewFactor, hapticFactor, networkFactor)
    IN [score |-> clampScore(finalScore),
        telegramAdjustment |-> isTelegram,
        behavioralFactor |-> behavioralFactor,
        webViewFactor |-> webViewFactor,
        hapticFactor |-> hapticFactor,
        networkFactor |-> networkFactor,
        stabilityScore |-> stabilityScore]

(***************************************************************************)
(* Conversions to text: String(x), template literals, JSON.stringify.      *)
(***************************************************************************)
DecimalDigits == <<"0", "1", "2", "3", "4", "5", "6", "7", "8", "9">>
HexDigits == <<"0", "1", "2", "3", "4", "5", "6", "7", "8", "9", "a", "b", "c", "d", "e", "f">>

\* Number.prototype.toString(radix) of a non-negative integer
RECURSIVE NatToString(_, _, _)
NatToString(n, radix, digits) ==
    IF n < radix THEN <<digits[n + 1]>>
    ELSE Append(NatToString(n \div radix, radix, digits), digits[(n % radix) + 1])

\* String(n) of an integer
NumToString(n) ==
    IF n < 0 THEN <<"-">> \o NatToString(-n, 10, DecimalDigits)
    ELSE NatToString(n, 10, DecimalDigits)

\* String(x), which is also what a template literal interpolates
StringOf(x) ==
    CASE x.t = "string" -> x.v
      [] x.t = "number" -> NumToString(x.v)
      [] x.t = "boolean" -> (IF x.v THEN s_true ELSE s_false)
      [] x.t = "null" -> s_null
      [] x.t = "undefined" -> s_undefined
      [] OTHER -> s_objectObject

\* the characters of a string as JSON writes them between quotes
RECURSIVE JSONEscape(_)
JSONEscape(str) ==
    IF str = <<>> THEN <<>>
    ELSE (IF Head(str) = "\"" \/ Head(str) = "\\" THEN <<"\\", Head(str)>> ELSE <<Head(str)>>)
         \o JSONEscape(Tail(str))

\* JSON.stringify(x); JSONMembers(props, n) writes the first n properties of
\* an object, leaving out the undefined ones
RECURSIVE JSONStringify(_)
RECURSIVE JSONMembers(_, _)
JSONMembers(props, n) ==
    IF n = 0 THEN <<>>
    ELSE LET before == JSONMembers(props, n - 1)
             key == props[n][1]
             value == props[n][2]
         IN IF value.t = "undefined" THEN before
            ELSE (IF before = <<>> THEN <<>> ELSE before \o <<",">>)
                 \o <<"\"">> \o JSONEscape(key) \o <<"\"", ":">> \o JSONStringify(value)

JSONStringify(x) ==
    CASE x.t = "string" -> <<"\"">> \o JSONEscape(x.v) \o <<"\"">>
      [] x.t = "number" -> NumToString(x.v)
      [] x.t = "boolean" -> (IF x.v THEN s_true ELSE s_false)
      [] x.t = "null" -> s_null
      [] x.t = "object" -> <<"{">> \o JSONMembers(x.v, Len(x.v)) \o <<"}">>
      [] OTHER -> s_undefined

(***************************************************************************)
(* simpleHash: 32-bit integers are TLA+ integers in -2^31 .. 2^31 - 1;     *)
(* sums that leave that range are computed on 16-bit halves.               *)
(***************************************************************************)
Int32 == (-2147483647 - 1)..2147483647

\* the two's complement halves <<high, low>> of a 32-bit integer
Halves(h) == <<(h \div 65536) % 65536, h % 65536>>

\* ToInt32 of high * 2^16 + low, for halves in 0 .. 2^16 - 1
FromHalves(high, low) ==
    IF high >= 32768 THEN (high - 65536) * 65536 + low ELSE high * 65536 + low

\* one round of the loop:
\*   hash = ((hash << 5) - hash) + char;  hash = hash & hash
\* hash << 5 wraps to 32 bits, the subtraction and the addition are exact, and
\* hash & hash wraps the sum to 32 bits again
HashStep(hash, char) ==
    LET h == Halves(hash)
        shiftedLow == (h[2] * 32) % 65536
        shiftedHigh == (h[1] * 32 + (h[2] * 32) \div 65536) % 65536
        low == shiftedLow - h[2] + char
        high == shiftedHigh - h[1] + low \div 65536
    IN FromHalves(high % 65536, low % 65536)

\* the hash after the loop has run over str[from..to], entered with hash; the
\* range is halved and its halves are run in order
RECURSIVE HashLoop(_, _, _, _)
HashLoop(str, from, to, hash) ==
    IF from > to THEN hash
    ELSE IF from = to THEN HashStep(hash, CharCode[str[from]])
    ELSE LET middle == (from + to) \div 2
             first == HashLoop(str, from, middle, hash)
         IN IF first \in Int32 THEN HashLoop(str, middle + 1, to, first) ELSE first

\* hash.toString(16): the sign is kept
ToHexSigned(hash) ==
    IF hash >= 0 THEN NatToString(hash, 16, HexDigits)
    ELSE <<"-">> \o (LET m == Halves(-(hash + 1))
                         magnitude == IF m[2] = 65535 THEN <<m[1] + 1, 0>> ELSE <<m[1], m[2] + 1>>
                         low == NatToString(magnitude[2], 16, HexDigits)
                     IN IF magnitude[1] = 0 THEN low
                        ELSE NatToString(magnitude[1], 16, HexDigits)
                             \o [i \in 1..(4 - Len(low)) |-> "0"] \o low)

\* Math.abs(hash).toString(16); Math.abs(-2^31) is 2^31
AbsToHex(hash) ==
    LET magnitude == IF hash >= 0 THEN Halves(hash)
                     ELSE LET m == Halves(-(hash + 1))
                          IN IF m[2] = 65535 THEN <<m[1] + 1, 0>> ELSE <<m[1], m[2] + 1>>
        low == NatToString(magnitude[2], 16, HexDigits)
    IN IF magnitude[1] = 0 THEN low
       ELSE NatToString(magnitude[1], 16, HexDigits)
            \o [i \in 1..(4 - Len(low)) |-> "0"] \o low

\* a hash whose accumulator is not reset between calls
simpleHashCarried(str) ==
    CHOOSE digest \in {AbsToHex(HashLoop(s, 1, Len(s), Len(fingerprint))) : s \in {str}} : TRUE

\* simpleHash: hash starts at 0, takes every character of str in order, and
\* is printed as the hexadecimal of its magnitude (str is evaluated once)
simpleHash(str) ==
    CHOOSE digest \in {AbsToHex(HashLoop(s, 1, Len(s), 0)) : s \in {str}} : TRUE

(***************************************************************************)
(* generateTelegramSpecificFingerprint.                                    *)
(***************************************************************************)
\* no key is skipped
IsInternalKeyNever(key) == FALSE

\* key.startsWith('_'): an internal property
IsInternalKey(key) == startsWith(key, <<"_">>)

\* a weight that takes 0 for a key the table does not list
weightOfListed(weights, key) ==
    LET weight == Get(weights, key)
    IN IF Truthy(weight) THEN weight.v ELSE 0

\* weights[key] || 1.0, in hundredths
weightOf(weights, key) ==
    LET weight == Get(weights, key)
    IN IF Truthy(weight) THEN weight.v ELSE 100

\* the textual value of a component
valueOf(component) ==
    IF component.t = "object"
    THEN IF HasKey(component.v, s_value)
         THEN StringOf(Lookup(component.v, s_value))
         ELSE JSONStringify(component)
    ELSE StringOf(component)

\* Math.max(1, Math.round(weight * 10)) for a weight in hundredths
repetitionsOf(weight) == Max(1, (weight + 5) \div 10)

\* the tokens pushed for the first n entries of the bag
RECURSIVE componentInputs(_, _, _)
componentInputs(comps, weights, n) ==
    IF n = 0 THEN <<>>
    ELSE LET key == comps[n][1]
             token == key \o <<":">> \o valueOf(comps[n][2])
             repetitions == repetitionsOf(weightOf(weights, key))
         IN componentInputs(comps, weights, n - 1)
            \o (IF IsInternalKey(key) THEN <<>> ELSE [i \in 1..repetitions |-> token])

\* context tokens pushed with the bridge variant before the version
contextInputsVariantFirst(context) ==
    IF Truthy(context)
    THEN << s_telegram \o <<":">> \o StringOf(Get(context, s_isTelegramWebView)),
            s_webview \o <<":">> \o StringOf(Get(context, s_webViewType)),
            s_version \o <<":">> \o StringOf(OrElse(Get(context, s_telegramVersion), Str(s_unknown))) >>
    ELSE <<>>

\* the tokens pushed for the Telegram-specific context
contextInputs(context) ==
    IF Truthy(context)
    THEN << s_telegram \o <<":">> \o StringOf(Get(context, s_isTelegramWebView)),
            s_version \o <<":">> \o StringOf(OrElse(Get(context, s_telegramVersion), Str(s_unknown))),
            s_webview \o <<":">> \o StringOf(Get(context, s_webViewType)) >>
    ELSE <<>>

\* weightedInputs as it is when the loops are over
weightedInputsOf(comps) ==
    LET enhancedComponents == adjustSourceWeights(comps)
        weights == OrElse(Lookup(enhancedComponents, s__weights), Obj(<<>>))
    IN componentInputs(comps, weights, Len(comps))
       \o contextInputs(Lookup(enhancedComponents, s__telegramContext))

\* tokens[from..to] joined with the separator
RECURSIVE JoinRange(_, _, _, _)
JoinRange(tokens, from, to, separator) ==
    IF from > to THEN <<>>
    ELSE IF from = to THEN tokens[from]
    ELSE LET middle == (from + to) \div 2
         IN JoinRange(tokens, from, middle, separator) \o separator
            \o JoinRange(tokens, middle + 1, to, separator)

\* Array.prototype.join
join(tokens, separator) == JoinRange(tokens, 1, Len(tokens), separator)

generateTelegramSpecificFingerprint(comps) ==
    simpleHash(join(weightedInputsOf(comps), <<"|">>))

(***************************************************************************)
(* The entry points, as operations on the caller's bag.                    *)
(***************************************************************************)
\* a call that writes the enriched entries into the bag it was given
callerBagEnrichedInPlace(comps) == adjustSourceWeights(comps)

\* the caller's bag after a call of an entry point: the bag is spread into a
\* new object literal and no statement assigns to a property of it
callerBag(comps) == comps

NoResults == detected = <<>> /\ confidence = <<>> /\ fingerprint = <<>> /\ enhanced = <<>>

\* telegramStrategy.detectTelegramEnvironment()
DetectTelegramEnvironment ==
    /\ detected' = <<detectTelegramEnvironment>>
    /\ UNCHANGED <<navigator, window, components, confidence, fingerprint, enhanced>>
    /\ UNCHANGED collection

\* createEnhancedComponents(components)
CreateEnhancedComponents ==
    /\ enhanced' = <<adjustSourceWeights(components)>>
    /\ components' = callerBag(components)
    /\ UNCHANGED <<navigator, window, detected, confidence, fingerprint>>
    /\ UNCHANGED collection

\* generateEnhancedFingerprint(components): the call is logged with the bag it
\* was given, the digest it returned and the collector the module held
GenerateEnhancedFingerprint ==
    /\ Len(fingerprint) < MaxCalls
    /\ fingerprint' = Append(fingerprint,
                             [input |-> components,
                              digest |-> generateTelegramSpecificFingerprint(components),
                              during |-> behavioralCollector])
    /\ components' = callerBag(components)
    /\ UNCHANGED <<navigator, window, detected, confidence, enhanced>>
    /\ UNCHANGED collection

\* calculateEnhancedConfidence(components)
CalculateEnhancedConfidence ==
    /\ confidence' = <<IF scorerFaults(components) THEN TypeError
                        ELSE getEnhancedConfidenceScore(components)>>
    /\ components' = callerBag(components)
    /\ UNCHANGED <<navigator, window, detected, fingerprint, enhanced>>
    /\ UNCHANGED collection

(***************************************************************************)
(* Component values the probes deliver.                                    *)
(***************************************************************************)
s_Win32 == <<"W", "i", "n", "3", "2">>
s_exists == <<"e", "x", "i", "s", "t", "s">>
s_9_1 == <<"9", ".", "1">>
s_good == <<"g", "o", "o", "d">>
s_en == <<"e", "n", "-", "U", "S">>
\* a non-null feature group of the behavioral component
SomeFeatures == Obj(<< <<s_value, Num(1)>> >>)

PlatformValues ==
    {Str(s_iPhone), Str(s_Android), Str(s_Win32), Obj(<< <<s_value, Str(s_iPad)>> >>), Null}

BehavioralValues ==
    {Obj(<< <<s_touchPatterns, SomeFeatures>>, <<s_motionSignature, Null>> >>),
     Obj(<< <<s_touchPatterns, Null>>, <<s_motionSignature, SomeFeatures>> >>),
     Obj(<< <<s_touchPatterns, Null>>, <<s_motionSignature, Null>> >>)}

WebViewValues ==
    {Obj(<< <<s_isWebView, Bool(TRUE)>>, <<s_webViewType, Str(s_telegram)>> >>),
     Obj(<< <<s_isWebView, Bool(TRUE)>>, <<s_webViewType, Str(s_unknown)>> >>),
     Obj(<< <<s_isWebView, Bool(FALSE)>>, <<s_webViewType, Str(s_telegram)>> >>)}

HapticValues ==
    {Obj(<< <<s_isAvailable, Bool(TRUE)>>, <<s_isTelegramHaptic, Bool(TRUE)>> >>),
     Obj(<< <<s_isAvailable, Bool(TRUE)>>, <<s_isTelegramHaptic, Bool(FALSE)>> >>),
     Obj(<< <<s_isAvailable, Bool(FALSE)>>, <<s_isTelegramHaptic, Bool(FALSE)>> >>)}

NetworkValues ==
    {Obj(<< <<s_connectionInfo, SomeFeatures>>, <<s_ipBasedEntropy, SomeFeatures>>,
            <<s_networkPerformance, Obj(<< <<s_networkQuality, Str(s_good)>> >>)>> >>),
     Obj(<< <<s_connectionInfo, SomeFeatures>> >>)}

TelegramWebAppValues ==
    {Obj(<< <<s_isTelegramWebView, Bool(TRUE)>>, <<s_telegramVersion, Str(s_9_1)>> >>),
     Obj(<< <<s_isTelegramWebView, Bool(TRUE)>>, <<s_telegramVersion, Null>> >>),
     Obj(<< <<s_isTelegramWebView, Bool(FALSE)>>, <<s_telegramVersion, Null>> >>)}

\* the keys the scorer reads, each with the values its probe may deliver
ScoredSources ==
    << <<s_platform, PlatformValues>>,
       <<s_timezone, {Str(s_exists)}>>,
       <<s_behavioral, BehavioralValues>>,
       <<s_webView, WebViewValues>>,
       <<s_haptic, HapticValues>>,
       <<s_network, NetworkValues>>,
       <<s_telegramWebApp, TelegramWebAppValues>>,
       <<s_hardwareConcurrency, {Num(8)}>>,
       <<s_deviceMemory, {Num(4)}>>,
       <<s_languages, {Str(s_en)}>> >>

\* the bags over ScoredSources[i..], in that key order, of at most n components
RECURSIVE BagsFrom(_, _)
BagsFrom(i, n) ==
    IF i > Len(ScoredSources) THEN {<<>>}
    ELSE BagsFrom(i + 1, n)
         \cup (IF n = 0 THEN {}
               ELSE {<< <<ScoredSources[i][1], v>> >> \o rest :
                        v \in ScoredSources[i][2], rest \in BagsFrom(i + 1, n - 1)})

ScoredBags == BagsFrom(1, MaxComponents)

\* values of a shape the scorer does not expect: null, undefined, scalars,
\* and records without any of the fields it inspects
MalformedValues ==
    {Null, Undefined, Num(0), Num(7), Str(<<>>), Str(s_telegram), Bool(TRUE),
     Obj(<<>>), Obj(<< <<s_value, Num(1)>> >>)}

\* the components the scorer and extractTelegramContext read a field of, each
\* with the unexpected values and one value of the expected shape
MalformedSources ==
    << <<s_platform, MalformedValues \cup {Str(s_iPhone)}>>,
       <<s_behavioral, MalformedValues
                       \cup {Obj(<< <<s_touchPatterns, SomeFeatures>>, <<s_motionSignature, Null>> >>)}>>,
       <<s_webView, MalformedValues
                    \cup {Obj(<< <<s_isWebView, Bool(TRUE)>>, <<s_webViewType, Str(s_telegram)>> >>)}>>,
       <<s_haptic, MalformedValues
                   \cup {Obj(<< <<s_isAvailable, Bool(TRUE)>>, <<s_isTelegramHaptic, Bool(TRUE)>> >>)}>>,
       <<s_network, MalformedValues
                    \cup {Obj(<< <<s_connectionInfo, SomeFeatures>>, <<s_ipBasedEntropy, SomeFeatures>> >>)}>>,
       <<s_telegramWebApp, MalformedValues
                           \cup {Obj(<< <<s_isTelegramWebView, Bool(TRUE)>>, <<s_telegramVersion, Str(s_9_1)>> >>)}>> >>

\* the bags of at most n of the sources from the i-th on
RECURSIVE MalformedFrom(_, _)
MalformedFrom(i, n) ==
    IF i > Len(MalformedSources) THEN {<<>>}
    ELSE MalformedFrom(i + 1, n)
         \cup (IF n = 0 THEN {}
               ELSE {<< <<MalformedSources[i][1], v>> >> \o rest :
                        v \in MalformedSources[i][2], rest \in MalformedFrom(i + 1, n - 1)})

MalformedBags == MalformedFrom(1, MaxMalformed)

(***************************************************************************)
(* The behavioral collector (src/unnamed/part_001).                        *)
(*                                                                         *)
(* A collector object is a record of its fields; collectors holds every    *)
(* object constructed so far and a collector is named by its index there.  *)
(* A promise is followed through the jobs it queues: the event loop runs a *)
(* task (a request, an event, a timer callback) only when the microtask    *)
(* queue is empty, and a microtask runs before any further task.           *)
(***************************************************************************)
\* let behavioralCollector = null
NoCollector == 0

\* private collectionDuration = 3000
collectionDuration == 3000

s_touchstart == <<"t", "o", "u", "c", "h", "s", "t", "a", "r", "t">>
s_touchmove == <<"t", "o", "u", "c", "h", "m", "o", "v", "e">>
s_touchend == <<"t", "o", "u", "c", "h", "e", "n", "d">>
s_scroll == <<"s", "c", "r", "o", "l", "l">>
s_devicemotion == <<"d", "e", "v", "i", "c", "e", "m", "o", "t", "i", "o", "n">>
s_vertical == <<"v", "e", "r", "t", "i", "c", "a", "l">>
s_horizontal == <<"h", "o", "r", "i", "z", "o", "n", "t", "a", "l">>
s_both == <<"b", "o", "t", "h">>
s_none == <<"n", "o", "n", "e">>

\* the event types setupEventListeners adds a listener for
EventTypes == {s_touchstart, s_touchmove, s_touchend, s_scroll, s_devicemotion}

\* a constructor that takes over the windows of the collector before it
newBehavioralCollectorRetaining ==
    [touchData |-> IF collectors = <<>> THEN <<>> ELSE collectors[Len(collectors)].touchData,
     scrollData |-> IF collectors = <<>> THEN <<>> ELSE collectors[Len(collectors)].scrollData,
     motionData |-> IF collectors = <<>> THEN <<>> ELSE collectors[Len(collectors)].motionData,
     isActive |-> FALSE, cleanup |-> "noop"]

\* the field initialisers of class BehavioralCollector; cleanup is the no-op
\* until setupEventListeners stores the closure that removes the listeners
newBehavioralCollector ==
    [touchData |-> <<>>, scrollData |-> <<>>, motionData |-> <<>>,
     isActive |-> FALSE, cleanup |-> "noop"]

\* a touchHandler that drops a touch event of the type it recorded last
touchHandlerDistinct(self, event) ==
    IF /\ self.isActive
       /\ \/ self.touchData = <<>>
          \/ self.touchData[Len(self.touchData)].type # event.type
    THEN [self EXCEPT !.touchData = Append(@, event)]
    ELSE self

\* touchHandler
touchHandler(self, event) ==
    IF self.isActive THEN [self EXCEPT !.touchData = Append(@, event)] ELSE self

\* scrollHandler: the sample takes Date.now() and the scroll offsets of window
scrollHandler(self, event) ==
    IF self.isActive
    THEN [self EXCEPT !.scrollData =
             Append(@, [timestamp |-> event.timeStamp,
                        scrollY |-> event.scrollY, scrollX |-> event.scrollX])]
    ELSE self

\* motionHandler
motionHandler(self, event) ==
    IF self.isActive /\ Truthy(event.accelerationIncludingGravity)
    THEN [self EXCEPT !.motionData =
             Append(@, [timestamp |-> event.timeStamp,
                        acceleration |-> event.accelerationIncludingGravity,
                        rotationRate |-> event.rotationRate])]
    ELSE self

\* setupEventListeners, on the collector: the cleanup closure is stored
setupEventListeners(self) == [self EXCEPT !.cleanup = "removeListeners"]

\* setupEventListeners, on document and window: five addEventListener calls
addEventListeners(dom, id) ==
    [dom EXCEPT !.listeners = @ \cup {<<id, type>> : type \in EventTypes}]

\* a cleanup that removes nothing
cleanupNoop(self, id, dom) == dom

\* this.cleanup(): the no-op, or the five removeEventListener calls of the
\* closure; removals logs the runs of the closure
cleanup(self, id, dom) ==
    IF self.cleanup = "removeListeners"
    THEN [listeners |-> dom.listeners \ {<<id, type>> : type \in EventTypes},
          removals |-> Append(dom.removals, id)]
    ELSE dom

\* start(), the executor of the promise up to setTimeout
start(self) == setupEventListeners([self EXCEPT !.isActive = TRUE])

\* a stop() that discards the windows before they are reduced
stopDiscarding(self) ==
    [self EXCEPT !.isActive = FALSE, !.touchData = <<>>, !.scrollData = <<>>,
                 !.motionData = <<>>]

\* stop(), on the collector
stop(self) == [self EXCEPT !.isActive = FALSE]

Abs(x) == IF x < 0 THEN -x ELSE x

\* reduce((a, b) => a + b, 0) over the first n numbers of a list
RECURSIVE SumTo(_, _)
SumTo(numbers, n) == IF n = 0 THEN 0 ELSE numbers[n] + SumTo(numbers, n - 1)

\* the differences of successive elements
Intervals(numbers) == [i \in 1..(Len(numbers) - 1) |-> numbers[i + 1] - numbers[i]]

\* reduce(...) / length, as a fraction, and 0 for an empty list
Average(numbers) ==
    IF Len(numbers) > 0 THEN [num |-> SumTo(numbers, Len(numbers)), den |-> Len(numbers)]
    ELSE [num |-> 0, den |-> 1]

\* touchData.filter(e => e.type === type)
OfType(events, type) == SelectSeq(events, LAMBDA e : e.type = type)

\* calculateGestureComplexity, in thousandths
calculateGestureComplexity(self) == Min(Len(self.touchData) * 100, 1000)

\* a touch analysis that has no null result
analyzeTouchPatternsAlways(self) ==
    [touchDuration |-> [num |-> 0, den |-> 1],
     touchFrequency |-> [num |-> 0, den |-> collectionDuration \div 1000],
     gestureComplexity |-> calculateGestureComplexity(self)]

\* analyzeTouchPatterns: null without touch events or without touch points;
\* touchCount pairs the touchstart and touchend events of the window
analyzeTouchPatterns(self) ==
    IF Len(self.touchData) = 0 THEN Null
    ELSE IF \A i \in 1..Len(self.touchData) : self.touchData[i].touches = <<>> THEN Null
    ELSE LET touchStarts == OfType(self.touchData, s_touchstart)
             touchEnds == OfType(self.touchData, s_touchend)
             touchCount == Min(Len(touchStarts), Len(touchEnds))
             durations == [i \in 1..touchCount |-> touchEnds[i].timeStamp - touchStarts[i].timeStamp]
         IN [touchDuration |-> Average(durations),
             touchFrequency |-> [num |-> touchCount, den |-> collectionDuration \div 1000],
             gestureComplexity |-> calculateGestureComplexity(self)]

\* determineScrollDirection
determineScrollDirection(self) ==
    IF Len(self.scrollData) < 2 THEN s_none
    ELSE LET n == Len(self.scrollData) - 1
             verticalMovement ==
                 SumTo([i \in 1..n |-> Abs(self.scrollData[i + 1].scrollY - self.scrollData[i].scrollY)], n)
             horizontalMovement ==
                 SumTo([i \in 1..n |-> Abs(self.scrollData[i + 1].scrollX - self.scrollData[i].scrollX)], n)
         IN IF verticalMovement > horizontalMovement * 2 THEN s_vertical
            ELSE IF horizontalMovement > verticalMovement * 2 THEN s_horizontal
            ELSE IF verticalMovement > 0 \/ horizontalMovement > 0 THEN s_both
            ELSE s_none

\* a scroll analysis that is null for the empty window only
analyzeScrollBehaviorFromOne(self, bounce) ==
    IF Len(self.scrollData) = 0 THEN Null
    ELSE [elasticBounceSignature |-> bounce,
          scrollDirection |-> determineScrollDirection(self)]

\* analyzeScrollBehavior: null with fewer than two samples; bounce is the
\* draw of Math.random() in calculateElasticBounce
analyzeScrollBehavior(self, bounce) ==
    IF Len(self.scrollData) < 2 THEN Null
    ELSE [elasticBounceSignature |-> bounce,
          scrollDirection |-> determineScrollDirection(self)]

\* analyzeTimingPatterns: null without touch events; delay is the draw of
\* Math.random() in calculateScrollToTouchDelay
analyzeTimingPatterns(self, delay) ==
    IF Len(self.touchData) = 0 THEN Null
    ELSE LET intervals ==
                 Intervals([i \in 1..Len(self.touchData) |-> self.touchData[i].timeStamp])
             averageInterval == Average(intervals)
         IN [averageReactionTime |-> averageInterval,
             keyboardInputTiming |-> 0,
             scrollToTouchDelay |-> delay,
             focusBlurPattern |-> 0,
             interactionInterval |-> averageInterval]

\* findPausePatterns
findPausePatterns(intervals) == SelectSeq(intervals, LAMBDA interval : interval > 500)

\* generateInteractionSequence: e.type.charAt(0) of every touch event
generateInteractionSequence(self) ==
    [i \in 1..Len(self.touchData) |-> self.touchData[i].type[1]]

\* analyzeInteractionRhythm: null without touch events
analyzeInteractionRhythm(self) ==
    IF Len(self.touchData) = 0 THEN Null
    ELSE LET touchStarts == OfType(self.touchData, s_touchstart)
             tapIntervals ==
                 Intervals([i \in 1..Len(touchStarts) |-> touchStarts[i].timeStamp])
         IN [pausePatterns |-> findPausePatterns(tapIntervals),
             interactionSequence |-> generateInteractionSequence(self)]

\* calculateScrollStability, in thousandths
calculateScrollStability(self) ==
    IF Len(self.scrollData) < 2 THEN 1000
    ELSE LET n == Len(self.scrollData) - 1
             stability ==
                 SumTo([i \in 1..n |->
                           Abs(self.scrollData[i + 1].scrollY - self.scrollData[i].scrollY)
                           + Abs(self.scrollData[i + 1].scrollX - self.scrollData[i].scrollX)], n)
         IN Max(0, 1000 - stability)

\* a Touch of event.touches
TouchPoint(x, y) == [clientX |-> x, clientY |-> y]

\* Math.sqrt of a perfect square
sqrt(n) == CHOOSE r \in 0..n : r * r = n

\* Math.atan2(dy, dx) in units of pi / 4, for a displacement along an axis
\* or a diagonal; atan2(0, 0) is 0
atan2(dy, dx) ==
    CASE dy = 0 /\ dx >= 0 -> 0
      [] dy = 0 /\ dx < 0 -> 4
      [] dy > 0 /\ dx > 0 -> 1
      [] dy > 0 /\ dx = 0 -> 2
      [] dy > 0 /\ dx < 0 -> 3
      [] dy < 0 /\ dx > 0 -> -1
      [] dy < 0 /\ dx = 0 -> -2
      [] dy < 0 /\ dx < 0 -> -3

\* e.touches[0]?.clientX || 0 and e.touches[0]?.clientY || 0
FirstPosition(event) ==
    IF event.touches = <<>> THEN TouchPoint(0, 0) ELSE event.touches[1]

\* calculateTouchPrecision: Math.max(0, 1 - avgVariation / 100) as the
\* fraction num/den
calculateTouchPrecision(self) ==
    LET touchStarts == OfType(self.touchData, s_touchstart)
        positions == [i \in 1..Len(touchStarts) |-> FirstPosition(touchStarts[i])]
        n == Len(positions) - 1
        totalVariation ==
            SumTo([i \in 1..n |->
                      sqrt((positions[i + 1].clientX - positions[i].clientX)
                              * (positions[i + 1].clientX - positions[i].clientX)
                           + (positions[i + 1].clientY - positions[i].clientY)
                              * (positions[i + 1].clientY - positions[i].clientY))], n)
    IN IF Len(touchStarts) < 2 THEN [num |-> 1, den |-> 1]
       ELSE [num |-> Max(0, 100 * n - totalVariation), den |-> 100 * n]

\* calculateGestureFlowness: Math.max(0, 1 - avgAngleChange / Math.PI) as the
\* fraction num/den, the angles counted in units of pi / 4 (Math.PI is 4)
calculateGestureFlowness(self) ==
    LET touchMoves == OfType(self.touchData, s_touchmove)
        n == Len(touchMoves) - 2
        change(i) ==
            IF touchMoves[i].touches # <<>> /\ touchMoves[i + 1].touches # <<>>
               /\ touchMoves[i + 2].touches # <<>>
            THEN LET p1 == touchMoves[i].touches[1]
                     p2 == touchMoves[i + 1].touches[1]
                     p3 == touchMoves[i + 2].touches[1]
                     angle1 == atan2(p2.clientY - p1.clientY, p2.clientX - p1.clientX)
                     angle2 == atan2(p3.clientY - p2.clientY, p3.clientX - p2.clientX)
                     angleDiff == Abs(angle2 - angle1)
                 IN Min(angleDiff, 4 - angleDiff)
            ELSE 0
        flowness == SumTo([i \in 1..n |-> change(i)], n)
    IN IF Len(touchMoves) < 3 THEN [num |-> 1, den |-> 1]
       ELSE [num |-> Max(0, 4 * n - flowness), den |-> 4 * n]

\* a.x || 0, a.y || 0, a.z || 0
AxisOr0(a, axis) == IF Truthy(Get(a, axis)) THEN Get(a, axis).v ELSE 0

\* calculateMovementEntropy: (max - min) / max of the magnitudes as the
\* fraction num/den, and 0 when they do not differ
calculateMovementEntropy(accelerations) ==
    LET changes == [i \in 1..Len(accelerations) |->
                       sqrt(AxisOr0(accelerations[i], <<"x">>) * AxisOr0(accelerations[i], <<"x">>)
                            + AxisOr0(accelerations[i], <<"y">>) * AxisOr0(accelerations[i], <<"y">>)
                            + AxisOr0(accelerations[i], <<"z">>) * AxisOr0(accelerations[i], <<"z">>))]
        max == CHOOSE m \in {changes[i] : i \in 1..Len(changes)} :
                  \A i \in 1..Len(changes) : changes[i] <= m
        min == CHOOSE m \in {changes[i] : i \in 1..Len(changes)} :
                  \A i \in 1..Len(changes) : changes[i] >= m
    IN IF Len(accelerations) = 0 THEN [num |-> 0, den |-> 1]
       ELSE IF max > min THEN [num |-> max - min, den |-> max]
       ELSE [num |-> 0, den |-> 1]

\* analyzeMotionSignature: null without motion samples; handTremor is left
\* out
analyzeMotionSignature(self) ==
    IF Len(self.motionData) = 0 THEN Null
    ELSE [scrollStability |-> calculateScrollStability(self),
          touchPrecision |-> calculateTouchPrecision(self),
          gestureFlowness |-> calculateGestureFlowness(self),
          movementEntropy |->
              calculateMovementEntropy([i \in 1..Len(self.motionData) |->
                                           self.motionData[i].acceleration])]

\* generateFingerprint.  The velocities, variances, consistencies and the
\* tremor are left out of the groups; which group is null is as in the
\* source.
generateFingerprint(self, bounce, delay) ==
    [touchPatterns |-> analyzeTouchPatterns(self),
     scrollBehavior |-> analyzeScrollBehavior(self, bounce),
     timingFingerprint |-> analyzeTimingPatterns(self, delay),
     interactionRhythm |-> analyzeInteractionRhythm(self),
     motionSignature |-> analyzeMotionSignature(self),
     isCollecting |-> FALSE]

\* an answer to a concurrent request that denies the collection under way
alreadyCollectingDenied ==
    [touchPatterns |-> Null, scrollBehavior |-> Null, timingFingerprint |-> Null,
     interactionRhythm |-> Null, motionSignature |-> Null, isCollecting |-> FALSE]

\* the value getBehavioralFingerprint resolves with when a collector exists
alreadyCollecting ==
    [touchPatterns |-> Null, scrollBehavior |-> Null, timingFingerprint |-> Null,
     interactionRhythm |-> Null, motionSignature |-> Null, isCollecting |-> TRUE]

\* a test of the collector that never finds one
CollectingNever == FALSE

\* if (behavioralCollector)
Collecting == behavioralCollector # NoCollector

\* a finally callback that leaves the collector in place
finallyCallbackKeeps == behavioralCollector

\* the finally callback: behavioralCollector = null
finallyCallback == NoCollector

\* getBehavioralFingerprint, called with the caller's requests so far (reqs)
\* and the microtasks pending after the caller's own job (queue).  A request
\* is [collector, settled, value, delivered]: the collector it started (none
\* for the already-collecting answer), whether the returned promise is
\* settled and with what, and whether the caller's continuation has run.
getBehavioralFingerprint(reqs, queue) ==
    IF Collecting
    THEN /\ requests' = Append(reqs, [collector |-> NoCollector, settled |-> TRUE,
                                      value |-> alreadyCollecting, delivered |-> FALSE])
         /\ microtasks' = Append(queue, [job |-> "deliver", request |-> Len(reqs) + 1,
                                         value |-> alreadyCollecting])
         /\ UNCHANGED <<behavioralCollector, collectors, targets, timers>>
    ELSE LET id == Len(collectors) + 1
         IN /\ behavioralCollector' = id
            /\ collectors' = Append(collectors, start(newBehavioralCollector))
            /\ targets' = addEventListeners(targets, id)
            /\ timers' = timers \cup {id}
            /\ requests' = Append(reqs, [collector |-> id, settled |-> FALSE,
                                         value |-> Null, delivered |-> FALSE])
            /\ microtasks' = queue

\* a synchronous observer that reads the collector's own flag instead of the
\* module's reference
getBehavioralFingerprintSyncByActivity ==
    [touchPatterns |-> Null, scrollBehavior |-> Null, timingFingerprint |-> Null,
     interactionRhythm |-> Null, motionSignature |-> Null,
     isCollecting |-> \E id \in DOMAIN collectors : collectors[id].isActive]

\* getBehavioralFingerprintSync
getBehavioralFingerprintSync ==
    [touchPatterns |-> Null, scrollBehavior |-> Null, timingFingerprint |-> Null,
     interactionRhythm |-> Null, motionSignature |-> Null,
     isCollecting |-> behavioralCollector # NoCollector]

(***************************************************************************)
(* The collector's environment: callers, events, the timer, the job queue. *)
(***************************************************************************)
\* window.scrollY at a scroll event (window.scrollX stays 0)
ScrollPositions == {0, 120}
\* event.accelerationIncludingGravity: null on a device without the sensor
Accelerations == {Null, Obj(<<>>)}
\* the draws of Math.random() the placeholders scale
RandomDraws == {0, 500}

\* touch events at time t, with the touch points still on the surface: none
\* after the last finger is lifted
TouchEvents(t) ==
    {[type |-> s_touchstart, timeStamp |-> t, touches |-> <<TouchPoint(0, 0)>>],
     [type |-> s_touchmove, timeStamp |-> t, touches |-> <<TouchPoint(0, 0)>>],
     [type |-> s_touchend, timeStamp |-> t, touches |-> <<>>],
     [type |-> s_touchend, timeStamp |-> t, touches |-> <<TouchPoint(0, 0)>>]}

ScrollEvents(t) ==
    {[type |-> s_scroll, timeStamp |-> t, scrollX |-> 0, scrollY |-> y] : y \in ScrollPositions}

MotionEvents(t) ==
    {[type |-> s_devicemotion, timeStamp |-> t,
      accelerationIncludingGravity |-> a, rotationRate |-> Null] : a \in Accelerations}

\* the history of dispatches is kept only where a specification starts it
NoHistory == [recording |-> FALSE, events |-> <<>>]
History == [recording |-> TRUE, events |-> <<>>]

\* the history after one more dispatch: the event, with the collectors that
\* were between start() and stop() when the browser dispatched it
Dispatch(event) ==
    IF dispatched.recording
    THEN [dispatched EXCEPT !.events =
             Append(@, [event |-> event,
                        active |-> {id \in DOMAIN collectors : collectors[id].isActive}])]
    ELSE dispatched

\* no collector has been constructed and nothing is registered or pending
NoCollection ==
    /\ behavioralCollector = NoCollector
    /\ collectors = <<>>
    /\ targets = [listeners |-> {}, removals |-> <<>>]
    /\ timers = {}
    /\ microtasks = <<>>
    /\ requests = <<>>
    /\ now = 0
    /\ dispatched = NoHistory
    /\ observed = <<>>

\* a caller's task calls getBehavioralFingerprint()
Request ==
    /\ microtasks = <<>>
    /\ Len(requests) < MaxRequests
    /\ getBehavioralFingerprint(requests, microtasks)
    /\ UNCHANGED <<now, dispatched, observed>>
    /\ UNCHANGED strategy

\* a caller's task calls getBehavioralFingerprintSync()
RequestSync ==
    /\ microtasks = <<>>
    /\ observed' = <<getBehavioralFingerprintSync>>
    /\ UNCHANGED <<behavioralCollector, collectors, targets, timers, microtasks, requests, now, dispatched>>
    /\ UNCHANGED strategy

\* a touchstart, touchmove or touchend is dispatched on document
Touch ==
    /\ microtasks = <<>>
    /\ now < MaxEvents
    /\ \E event \in TouchEvents(now + 1) :
          /\ collectors' = [id \in DOMAIN collectors |->
                               IF <<id, event.type>> \in targets.listeners
                               THEN touchHandler(collectors[id], event)
                               ELSE collectors[id]]
          /\ dispatched' = Dispatch(event)
    /\ now' = now + 1
    /\ UNCHANGED <<behavioralCollector, targets, timers, microtasks, requests, observed>>
    /\ UNCHANGED strategy

\* a scroll is dispatched on document
Scroll ==
    /\ microtasks = <<>>
    /\ now < MaxEvents
    /\ \E event \in ScrollEvents(now + 1) :
          /\ collectors' = [id \in DOMAIN collectors |->
                               IF <<id, event.type>> \in targets.listeners
                               THEN scrollHandler(collectors[id], event)
                               ELSE collectors[id]]
          /\ dispatched' = Dispatch(event)
    /\ now' = now + 1
    /\ UNCHANGED <<behavioralCollector, targets, timers, microtasks, requests, observed>>
    /\ UNCHANGED strategy

\* a devicemotion is dispatched on window
DeviceMotion ==
    /\ microtasks = <<>>
    /\ now < MaxEvents
    /\ \E event \in MotionEvents(now + 1) :
          /\ collectors' = [id \in DOMAIN collectors |->
                               IF <<id, event.type>> \in targets.listeners
                               THEN motionHandler(collectors[id], event)
                               ELSE collectors[id]]
          /\ dispatched' = Dispatch(event)
    /\ now' = now + 1
    /\ UNCHANGED <<behavioralCollector, targets, timers, microtasks, requests, observed>>
    /\ UNCHANGED strategy

\* the callback of setTimeout: stop(), then resolve(generateFingerprint()),
\* which queues the reaction that finally() registered on the promise
TimerFires ==
    /\ microtasks = <<>>
    /\ \E id \in timers, bounce \in RandomDraws, delay \in RandomDraws :
          LET self == stop(collectors[id])
              request == CHOOSE r \in DOMAIN requests : requests[r].collector = id
          IN /\ timers' = timers \ {id}
             /\ collectors' = [collectors EXCEPT ![id] = self]
             /\ targets' = cleanup(self, id, targets)
             /\ microtasks' = <<[job |-> "finally", request |-> request,
                                 value |-> generateFingerprint(self, bounce, delay)]>>
    /\ UNCHANGED <<behavioralCollector, requests, now, dispatched, observed>>
    /\ UNCHANGED strategy

\* the reaction of finally(): the callback runs, then the promise returned to
\* the caller settles with the value and queues the caller's continuation
RunFinally ==
    /\ microtasks # <<>>
    /\ Head(microtasks).job = "finally"
    /\ LET job == Head(microtasks)
       IN /\ behavioralCollector' = finallyCallback
          /\ requests' = [requests EXCEPT ![job.request].settled = TRUE,
                                          ![job.request].value = job.value]
          /\ microtasks' = Append(Tail(microtasks),
                                  [job |-> "deliver", request |-> job.request, value |-> job.value])
    /\ UNCHANGED <<collectors, targets, timers, now, dispatched, observed>>
    /\ UNCHANGED strategy

\* the caller's continuation receives the value and makes no request
Deliver ==
    /\ microtasks # <<>>
    /\ Head(microtasks).job = "deliver"
    /\ requests' = [requests EXCEPT ![Head(microtasks).request].delivered = TRUE]
    /\ microtasks' = Tail(microtasks)
    /\ UNCHANGED <<behavioralCollector, collectors, targets, timers, now, dispatched, observed>>
    /\ UNCHANGED strategy

\* the caller's continuation receives the value and calls
\* getBehavioralFingerprint() again at once
DeliverAndRequest ==
    /\ microtasks # <<>>
    /\ Head(microtasks).job = "deliver"
    /\ Len(requests) < MaxRequests
    /\ getBehavioralFingerprint(
          [requests EXCEPT ![Head(microtasks).request].delivered = TRUE], Tail(microtasks))
    /\ UNCHANGED <<now, dispatched, observed>>
    /\ UNCHANGED strategy

(***************************************************************************)
(* Specifications.                                                         *)
(***************************************************************************)
\* the classifier and the weight adapter, in every environment
ClassifiedBags ==
    {<<>>,
     << <<s_platform, Str(s_iPhone)>> >>,
     << <<s_telegramWebApp, Obj(<< <<s_isTelegramWebView, Bool(TRUE)>>, <<s_telegramVersion, Str(s_9_1)>> >>)>>,
        <<s_canvas, Obj(<< <<s_value, Num(7)>> >>)>> >>}

InitClassify ==
    /\ navigator \in Navigators
    /\ window \in Windows
    /\ components \in ClassifiedBags
    /\ NoResults
    /\ NoCollection

NextClassify == DetectTelegramEnvironment \/ CreateEnhancedComponents

SpecClassify == InitClassify /\ [][NextClassify]_vars

\* the confidence scorer, in Telegram and browser environments
ScoredNavigators == [userAgent : {ua_Chrome, ua_TelegramWebview}]
ScoredWindows == [Telegram : {"undefined", "WebApp"}, TelegramWebviewProxy : {FALSE}]

InitScore ==
    /\ navigator \in ScoredNavigators
    /\ window \in ScoredWindows
    /\ components \in ScoredBags
    /\ NoResults
    /\ NoCollection

NextScore == CalculateEnhancedConfidence

SpecScore == InitScore /\ [][NextScore]_vars

\* the synthesizer, on ordered bags that may carry reserved keys
SynthesizedEntries ==
    {<<s_platform, Str(s_iPhone)>>,
     <<s_canvas, Obj(<< <<s_value, Num(7)>> >>)>>,
     <<s_audio, Num(35)>>,
     <<s_fonts, Obj(<< <<s_version, Str(s_9_1)>> >>)>>,
     <<s_plugins, Num(3)>>,
     <<s_webView, Obj(<< <<s_webViewType, Str(s_telegram)>> >>)>>,
     <<s_telegramWebApp, Obj(<< <<s_value, Num(1)>>, <<s_isTelegramWebView, Bool(TRUE)>>, <<s_telegramVersion, Str(s_9_1)>> >>)>>,
     <<s__weights, Obj(<< <<s_canvas, Num(900)>>, <<s_audio, Num(10)>> >>)>>,
     <<s__weights, Null>>,
     <<s__telegramContext, Obj(<< <<s_isTelegramWebView, Bool(TRUE)>>, <<s_telegramVersion, Str(s_9_1)>>, <<s_webViewType, Str(s_telegram)>> >>)>>}

\* the bags of exactly n entries with distinct keys, in every insertion order
BagsOfLength(n) ==
    {bag \in [1..n -> SynthesizedEntries] :
        \A i, j \in 1..n : i # j => bag[i][1] # bag[j][1]}

SynthesizedBags == UNION {BagsOfLength(n) : n \in 0..MaxEntries}

SynthesizedNavigators == [userAgent : {ua_Chrome, ua_TelegramWebview}]
SynthesizedWindows == [Telegram : {"undefined"}, TelegramWebviewProxy : {FALSE}]

InitSynth ==
    /\ navigator \in SynthesizedNavigators
    /\ window \in SynthesizedWindows
    /\ components \in SynthesizedBags
    /\ NoResults
    /\ NoCollection

NextSynth == GenerateEnhancedFingerprint

SpecSynth == InitSynth /\ [][NextSynth]_vars

\* the scorer on bags whose components have unexpected shapes
InitMalformed ==
    /\ navigator \in ScoredNavigators
    /\ window \in [Telegram : {"undefined"}, TelegramWebviewProxy : {FALSE}]
    /\ components \in MalformedBags
    /\ NoResults
    /\ NoCollection

NextMalformed == CalculateEnhancedConfidence

SpecMalformed == InitMalformed /\ [][NextMalformed]_vars

\* the three entry points on one bag, which may carry reserved keys
InitEnrich ==
    /\ navigator \in SynthesizedNavigators
    /\ window \in SynthesizedWindows
    /\ components \in SynthesizedBags
    /\ NoResults
    /\ NoCollection

NextEnrich ==
    \/ CreateEnhancedComponents
    \/ CalculateEnhancedConfidence
    \/ GenerateEnhancedFingerprint

SpecEnrich == InitEnrich /\ [][NextEnrich]_vars

\* the scorer and the synthesizer called while collections run: a bag that
\* is populated in part, motion events only
ConcurrentBag == << <<s_audio, Num(35)>> >>

InitConcurrent ==
    /\ navigator = [userAgent |-> ua_TelegramWebview]
    /\ window = [Telegram |-> "WebApp", TelegramWebviewProxy |-> FALSE]
    /\ components = ConcurrentBag
    /\ NoResults
    /\ NoCollection

NextConcurrent ==
    \/ Request
    \/ DeviceMotion
    \/ TimerFires
    \/ RunFinally
    \/ Deliver
    \/ CalculateEnhancedConfidence
    \/ GenerateEnhancedFingerprint

SpecConcurrent == InitConcurrent /\ [][NextConcurrent]_vars

\* the collector under requests, events and timer expiries in any order
InitCollector ==
    /\ navigator = [userAgent |-> ua_Chrome]
    /\ window = [Telegram |-> "undefined", TelegramWebviewProxy |-> FALSE]
    /\ components = <<>>
    /\ NoResults
    /\ NoCollection

\* the jobs of the microtask queue
RunMicrotask == RunFinally \/ Deliver \/ DeliverAndRequest

NextCollector ==
    \/ Request
    \/ RequestSync
    \/ Touch
    \/ Scroll
    \/ DeviceMotion
    \/ TimerFires
    \/ RunMicrotask

SpecCollector == InitCollector /\ [][NextCollector]_vars

\* the event loop runs the callback of a timer whose delay has passed and
\* drains the microtask queue after every task
SpecCollectorFair ==
    /\ SpecCollector
    /\ WF_vars(TimerFires)
    /\ WF_vars(RunMicrotask)

\* simpleHash on strings of its own: the empty string, short strings, and
\* strings long enough for the accumulator to leave 32 bits
HashedChars == {" ", "a", "~"}

HashedStrings == UNION {[1..n -> HashedChars] : n \in 0..MaxChars}

\* this.simpleHash(str): the call is logged with the string and the digest
SimpleHash ==
    /\ fingerprint = <<>>
    /\ \E str \in HashedStrings :
          fingerprint' = <<[input |-> str, digest |-> simpleHash(str),
                            during |-> behavioralCollector]>>
    /\ UNCHANGED <<navigator, window, components, detected, confidence, enhanced>>
    /\ UNCHANGED collection

InitHash ==
    /\ navigator = [userAgent |-> ua_Chrome]
    /\ window = [Telegram |-> "undefined", TelegramWebviewProxy |-> FALSE]
    /\ components = <<>>
    /\ NoResults
    /\ NoCollection

NextHash == SimpleHash

SpecHash == InitHash /\ [][NextHash]_vars

\* the reduction of a window, from the collection that filled it and whose
\* timer is about to expire: touchstart events at two positions, touchmove
\* events at three positions that lie along axes and diagonals of one
\* another, scroll samples a short and a long way apart, and motion samples
\* whose magnitude is a whole number
ReducedTouchEvents ==
    {[type |-> s_touchstart, touches |-> <<TouchPoint(x, 0)>>] : x \in {0, 300}}
       \cup {[type |-> s_touchmove, touches |-> <<point>>] :
                point \in {TouchPoint(20, 0), TouchPoint(10, 10), TouchPoint(0, 0)}}

ReducedTouchWindows ==
    UNION {{[i \in 1..n |-> [type |-> events[i].type, timeStamp |-> i,
                             touches |-> events[i].touches]] :
               events \in [1..n -> ReducedTouchEvents]} : n \in 0..MaxTouches}

ReducedScrollWindows ==
    {<<>>} \cup {<<[timestamp |-> 1, scrollY |-> 0, scrollX |-> 0],
                   [timestamp |-> 2, scrollY |-> y, scrollX |-> 0]>> : y \in {120, 2000}}

ReducedMotionWindows ==
    LET reading(t, a) == [timestamp |-> t, acceleration |-> a, rotationRate |-> Null]
        still == Obj(<< <<<<"x">>, Num(0)>>, <<<<"y">>, Num(0)>>, <<<<"z">>, Num(0)>> >>)
        tilted == Obj(<< <<<<"x">>, Num(3)>>, <<<<"y">>, Num(4)>>, <<<<"z">>, Num(0)>> >>)
        upright == Obj(<< <<<<"z">>, Num(10)>> >>)
    IN {<<>>, <<reading(1, still)>>, <<reading(1, tilted), reading(2, upright)>>,
        <<reading(1, upright), reading(2, still)>>}

InitMotion ==
    /\ navigator = [userAgent |-> ua_Chrome]
    /\ window = [Telegram |-> "undefined", TelegramWebviewProxy |-> FALSE]
    /\ components = <<>>
    /\ NoResults
    /\ behavioralCollector = 1
    /\ \E touchData \in ReducedTouchWindows, scrollData \in ReducedScrollWindows,
          motionData \in ReducedMotionWindows :
          collectors = <<[touchData |-> touchData, scrollData |-> scrollData,
                          motionData |-> motionData, isActive |-> TRUE,
                          cleanup |-> "removeListeners"]>>
    /\ targets = [listeners |-> {<<1, type>> : type \in EventTypes}, removals |-> <<>>]
    /\ timers = {1}
    /\ microtasks = <<>>
    /\ requests = <<[collector |-> 1, settled |-> FALSE, value |-> Null, delivered |-> FALSE]>>
    /\ now = MaxTouches
    /\ dispatched = NoHistory
    /\ observed = <<>>

NextMotion == TimerFires \/ RunFinally \/ Deliver

SpecMotion == InitMotion /\ [][NextMotion]_vars

\* the collector with the history of dispatches kept: each caller makes its
\* request from a task of its own
InitDelivery ==
    /\ navigator = [userAgent |-> ua_Chrome]
    /\ window = [Telegram |-> "undefined", TelegramWebviewProxy |-> FALSE]
    /\ components = <<>>
    /\ NoResults
    /\ behavioralCollector = NoCollector
    /\ collectors = <<>>
    /\ targets = [listeners |-> {}, removals |-> <<>>]
    /\ timers = {}
    /\ microtasks = <<>>
    /\ requests = <<>>
    /\ now = 0
    /\ dispatched = History
    /\ observed = <<>>

NextDelivery ==
    \/ Request
    \/ Touch
    \/ Scroll
    \/ DeviceMotion
    \/ TimerFires
    \/ RunFinally
    \/ Deliver

SpecDelivery == InitDelivery /\ [][NextDelivery]_vars

(***************************************************************************)
(* Claims about the classifier (SpecClassify) and the scorer (SpecScore).  *)
(***************************************************************************)
\* the user agent carries the app's marker "telegram" in some letter case
\* ("telegramwebview" carries it too)
HasMarker(ua) ==
    \E i \in 1..Len(ua) :
        /\ i + Len(s_telegram) - 1 <= Len(ua)
        /\ \A j \in 1..Len(s_telegram) :
              \/ ua[i + j - 1] = s_telegram[j]
              \/ CharCode[ua[i + j - 1]] + 32 = CharCode[s_telegram[j]]

\* C10: a user agent carrying the marker in any letter case is classified as
\* the target, also without a bridge object; window.Telegram.WebApp alone is
\* classified as the target; without marker and bridge object the result is false
C10_ClassifierFollowsMarkers ==
    detected # <<>> =>
        /\ HasMarker(navigator.userAgent) => detected[1] = TRUE
        /\ window.Telegram = "WebApp" => detected[1] = TRUE
        /\ (~HasMarker(navigator.userAgent) /\ window.Telegram # "WebApp")
              => detected[1] = FALSE

\* an upper-case marker and no bridge object, classified
C10_Witness ==
    /\ detected = <<TRUE>>
    /\ navigator.userAgent = ua_TELEGRAM
    /\ window.Telegram = "undefined"

\* C1: the returned score lies in [0.1, 0.9]
C1_ScoreClamped ==
    confidence # <<>> => confidence[1].score >= 100 /\ confidence[1].score <= 900

\* a Telegram score whose sum is capped at 0.9 and then takes the 0.05 bonus
C1_Witness ==
    /\ confidence # <<>>
    /\ confidence[1].telegramAdjustment
    /\ baseScoreOf(components) + confidence[1].behavioralFactor
          + confidence[1].hapticFactor >= 900
    /\ confidence[1].behavioralFactor = 200
    /\ confidence[1].hapticFactor = 150
    /\ confidence[1].score = 900

\* none of platform, timezone, hardwareConcurrency with deviceMemory, languages
NoStructuralSignals(comps) ==
    /\ ~HasKey(comps, s_platform)
    /\ ~HasKey(comps, s_timezone)
    /\ ~(HasKey(comps, s_hardwareConcurrency) /\ HasKey(comps, s_deviceMemory))
    /\ ~HasKey(comps, s_languages)

\* the bag's telegramWebApp component reports isTelegramWebView
ReportsTelegramWebView(comps) ==
    /\ HasKey(comps, s_telegramWebApp)
    /\ Truthy(Get(Lookup(comps, s_telegramWebApp), s_isTelegramWebView))

StabilityInUnitInterval(r) ==
    /\ r.stabilityScore.den > 0
    /\ 0 <= r.stabilityScore.num
    /\ r.stabilityScore.num <= r.stabilityScore.den

\* C8 as stated: stabilityScore lies in [0, 1] and is exactly 0.5 whenever no
\* structural signal is in the bag
C8_HalfWithoutStructuralSignals ==
    confidence # <<>> =>
        /\ StabilityInUnitInterval(confidence[1])
        /\ NoStructuralSignals(components)
              => 2 * confidence[1].stabilityScore.num = confidence[1].stabilityScore.den

\* C8 amended: stabilityScore lies in [0, 1]; it is exactly 0.5 whenever no
\* structural signal is in the bag and the telegramWebApp component does not
\* report isTelegramWebView; when it does, the score of a bag without
\* structural signals is (1 if a version is reported) + (0.5 if haptics are
\* available), over 1.5
C8_HalfWithoutAnySignal ==
    confidence # <<>> =>
        LET r == confidence[1]
            context == extractTelegramContext(components)
        IN /\ StabilityInUnitInterval(r)
           /\ (NoStructuralSignals(components) /\ ~ReportsTelegramWebView(components))
                 => 2 * r.stabilityScore.num = r.stabilityScore.den
           /\ (NoStructuralSignals(components) /\ ReportsTelegramWebView(components))
                 => /\ r.stabilityScore.den = 3
                    /\ r.stabilityScore.num =
                          (IF Truthy(context.telegramVersion) THEN 2 ELSE 0)
                          + (IF Truthy(context.hasHapticFeedback) THEN 1 ELSE 0)

\* a scored bag of other components only, and none of them structural
C8_Witness ==
    /\ confidence # <<>>
    /\ Len(components) >= 2
    /\ NoStructuralSignals(components)
    /\ ~ReportsTelegramWebView(components)
    /\ confidence[1].stabilityScore = [num |-> 1, den |-> 2]

\* the platform nudge: 0.1 for iPhone or iPad, 0.05 for Android
PlatformNudge(comps) ==
    LET p == Lookup(comps, s_platform)
        text == IF p.t = "string" THEN p.v
                ELSE IF p.t = "object" /\ Get(p, s_value).t = "string" THEN Get(p, s_value).v
                ELSE <<>>
    IN IF includes(text, s_iPhone) \/ includes(text, s_iPad) THEN 100
       ELSE IF includes(text, s_Android) THEN 50 ELSE 0

\* the bag of the worked example
ExampleBag ==
    << <<s_platform, Str(s_iPhone)>>, <<s_timezone, Str(s_exists)>>,
       <<s_behavioral, Obj(<< <<s_touchPatterns, SomeFeatures>>, <<s_motionSignature, Null>> >>)>> >>

\* C9: the score is the combine rule applied to the base score and the four
\* returned factors, clamped; the empty bag scores 0.5 in a browser with all
\* factors 0, and the example bag scores 0.8 in Telegram with behavioralFactor
\* 0.2 and webViewFactor 0
C9_CombineRule ==
    confidence # <<>> =>
        LET r == confidence[1]
            base == 500 + PlatformNudge(components)
            context == extractTelegramContext(components)
            bonus == IF Truthy(context.hasBehavioralData) /\ Truthy(context.hasHapticFeedback)
                     THEN 50 ELSE 0
            sum == base + r.behavioralFactor + r.webViewFactor + r.hapticFactor + r.networkFactor
            target == (IF sum > 900 THEN 900 ELSE sum) + bonus
            half == base + (r.behavioralFactor + r.networkFactor) \div 2
            browser == IF half > 850 THEN 850 ELSE half
            final == IF r.telegramAdjustment THEN target ELSE browser
        IN /\ r.telegramAdjustment = detectTelegramEnvironment
           /\ r.score = (IF final < 100 THEN 100 ELSE IF final > 900 THEN 900 ELSE final)
           /\ (components = <<>> /\ ~r.telegramAdjustment)
                 => /\ r.score = 500
                    /\ r.behavioralFactor = 0 /\ r.webViewFactor = 0
                    /\ r.hapticFactor = 0 /\ r.networkFactor = 0
           /\ (components = ExampleBag /\ r.telegramAdjustment)
                 => r.behavioralFactor = 200 /\ r.webViewFactor = 0 /\ r.score = 800

\* the example bag scored in Telegram
C9_Witness ==
    /\ confidence # <<>>
    /\ components = ExampleBag
    /\ confidence[1].telegramAdjustment
    /\ confidence[1].score = 800

WithoutReserved(comps) == SelectSeq(comps, LAMBDA e : e[1] = <<>> \/ e[1][1] # "_")

\* C7: the reserved entries contribute nothing: the tokens and the digest of a
\* bag are those of the bag without its reserved entries, so that adding,
\* removing or changing a reserved entry changes neither
C7_ReservedKeysExcluded ==
    /\ weightedInputsOf(components) = weightedInputsOf(WithoutReserved(components))
    /\ \A i \in 1..Len(fingerprint) :
          fingerprint[i].digest
             = generateTelegramSpecificFingerprint(WithoutReserved(fingerprint[i].input))

\* a digest of a bag that holds a component and a reserved weight table for it
C7_Witness ==
    /\ fingerprint # <<>>
    /\ HasKey(components, s_canvas)
    /\ HasKey(components, s__weights)
    /\ Truthy(Lookup(components, s__weights))

(***************************************************************************)
(* Claims about the behavioral collector (SpecCollector).                  *)
(***************************************************************************)
\* the collectors whose active flag is set
Active == {id \in DOMAIN collectors : collectors[id].isActive}

\* the collectors that hold a listener on document or window
Listening ==
    {id \in DOMAIN collectors : \E type \in EventTypes : <<id, type>> \in targets.listeners}

\* C2: at most one collection is active at any time: never more than one
\* collector with its active flag set, one collector with listeners registered
\* and one pending timer, and whatever is active, registered or pending
\* belongs to the collector the module holds, so that a request received
\* while collecting has not started a second window
C2_AtMostOneCollection ==
    /\ Cardinality(Active) <= 1
    /\ Cardinality(Listening) <= 1
    /\ Cardinality(timers) <= 1
    /\ (Active \cup Listening \cup timers) \subseteq {behavioralCollector}

\* a request was answered while a collection with a collected event was active
C2_Witness ==
    /\ \E r \in DOMAIN requests : requests[r].collector = NoCollector
    /\ \E id \in timers : collectors[id].isActive /\ collectors[id].touchData # <<>>

\* a step in which a request is made while the module holds a collector
ConflictStep ==
    /\ behavioralCollector # NoCollector
    /\ Len(requests') = Len(requests) + 1

\* C3: a request made while a collection is active returns a promise that is
\* already settled, while the timer of the collection is still pending, with
\* the five groups null and isCollecting true; the step changes neither the
\* module's collector, nor any collector's window and active flag, nor the
\* registered listeners, nor the timers; and every settled collection carries
\* the features of its own window
C3_ConcurrentRequestAnswered ==
    /\ [][ConflictStep =>
             /\ requests'[Len(requests')] =
                   [collector |-> NoCollector, settled |-> TRUE, delivered |-> FALSE,
                    value |-> [touchPatterns |-> Null, scrollBehavior |-> Null,
                               timingFingerprint |-> Null, interactionRhythm |-> Null,
                               motionSignature |-> Null, isCollecting |-> TRUE]]
             /\ timers = {behavioralCollector}
             /\ UNCHANGED <<behavioralCollector, collectors, targets, timers>>]_vars
    /\ [](\A r \in DOMAIN requests :
             (requests[r].collector # NoCollector /\ requests[r].settled)
                => \E bounce \in RandomDraws, delay \in RandomDraws :
                      requests[r].value
                         = generateFingerprint(collectors[requests[r].collector], bounce, delay))

\* a collection was asked for again while it ran, and then settled with a
\* touch pattern
C3_Witness ==
    \E first \in DOMAIN requests, second \in DOMAIN requests :
        /\ first < second
        /\ requests[first].collector # NoCollector
        /\ requests[second].collector = NoCollector
        /\ requests[first].settled
        /\ requests[first].value.touchPatterns # Null

\* the phases of the collection of collector id
IsCollecting(id) == id \in timers

IsReducing(id) == id \in DOMAIN collectors /\ id \notin timers /\ behavioralCollector = id

HasEmitted(id) ==
    /\ id \in DOMAIN collectors
    /\ id \notin timers
    /\ behavioralCollector # id
    /\ \E r \in DOMAIN requests :
          /\ requests[r].collector = id
          /\ requests[r].delivered
          /\ requests[r].value.isCollecting = FALSE

\* C4: every collection that starts terminates.  Under the fairness of the
\* event loop a collecting collector comes to have its features delivered,
\* with isCollecting false, and the module no longer holding it; a collection
\* leaves Collecting only for Reducing and Reducing only for Idle; features
\* once emitted stay emitted; and a request made when the module holds no
\* collector starts a new collection, with its timer, instead of being
\* answered as already collecting
C4_CollectionsTerminate ==
    /\ \A id \in 1..MaxRequests : IsCollecting(id) ~> HasEmitted(id)
    /\ [][\A id \in DOMAIN collectors :
             /\ (IsCollecting(id) /\ ~IsCollecting(id)') => IsReducing(id)'
             /\ (IsReducing(id) /\ ~IsReducing(id)') => behavioralCollector' = NoCollector
             /\ HasEmitted(id) => HasEmitted(id)']_vars
    /\ [][(behavioralCollector = NoCollector /\ Len(requests') = Len(requests) + 1) =>
             /\ Len(collectors') = Len(collectors) + 1
             /\ behavioralCollector' = Len(collectors')
             /\ behavioralCollector' \in timers'
             /\ requests'[Len(requests')].collector = behavioralCollector'
             /\ ~requests'[Len(requests')].settled]_vars

\* a second collection runs after the features of a first were delivered
C4_Witness ==
    \E r \in DOMAIN requests :
        /\ requests[r].collector # NoCollector
        /\ requests[r].delivered
        /\ behavioralCollector > requests[r].collector
        /\ behavioralCollector \in timers

\* how many times the cleanup closure of collector id has run
Removals(id) == Len(SelectSeq(targets.removals, LAMBDA c : c = id))

\* C5: the five listeners of a collection are registered, and have not been
\* removed, for as long as its timer is pending; from timer expiry on they
\* have been removed exactly once and none of them is registered
C5_ListenersRemovedOnce ==
    \A id \in DOMAIN collectors :
        IF id \in timers
        THEN /\ Removals(id) = 0
             /\ \A type \in EventTypes : <<id, type>> \in targets.listeners
        ELSE /\ Removals(id) = 1
             /\ \A type \in EventTypes : <<id, type>> \notin targets.listeners

\* a collection has ended after collecting two events
C5_Witness ==
    \E id \in DOMAIN collectors :
        /\ id \notin timers
        /\ Len(collectors[id].touchData) + Len(collectors[id].scrollData)
              + Len(collectors[id].motionData) >= 2

(***************************************************************************)
(* Claims about the weight adapter (SpecClassify).                         *)
(***************************************************************************)
\* the keys of a property list
KeysOf(props) == {props[i][1] : i \in 1..Len(props)}

\* the weight an enriched bag carries for a key, in hundredths
CarriedWeight(bag, key) == Get(Lookup(bag, s__weights), key).v

\* C11: in a Telegram environment the weight table of the enriched bag holds
\* strictly less than the baseline for canvas and audio, and strictly more
\* than the baseline for telegramWebApp, webView and behavioral
C11_TargetShiftsWeights ==
    \A i \in 1..Len(enhanced) :
        detectTelegramEnvironment =>
            /\ \A key \in {s_canvas, s_audio} :
                  CarriedWeight(enhanced[i], key) < Lookup(baseWeights, key)
            /\ \A key \in {s_telegramWebApp, s_webView, s_behavioral} :
                  CarriedWeight(enhanced[i], key) > Lookup(baseWeights, key)

\* a bag with components was enriched in a Telegram environment
C11_Witness ==
    /\ enhanced # <<>>
    /\ detectTelegramEnvironment
    /\ HasKey(components, s_canvas)

\* C12: the carried weight table is the baseline overlaid key-wise.  Outside
\* Telegram it is the baseline, key by key and in order; in Telegram its keys
\* are those of the baseline and of the overrides, every override key carries
\* its override value and every other key its baseline value.  Every weight
\* of the baseline and of the overrides is strictly positive.
C12_TableIsBaselineOverlaid ==
    /\ \A i \in 1..Len(baseWeights) : baseWeights[i][2] > 0
    /\ \A i \in 1..Len(telegramWeights) : telegramWeights[i][2] > 0
    /\ \A i \in 1..Len(enhanced) :
          LET table == Lookup(enhanced[i], s__weights).v
          IN IF detectTelegramEnvironment
             THEN /\ KeysOf(table) = KeysOf(baseWeights) \cup KeysOf(telegramWeights)
                  /\ Len(table) = Cardinality(KeysOf(table))
                  /\ \A key \in KeysOf(telegramWeights) :
                        Lookup(table, key) = Num(Lookup(telegramWeights, key))
                  /\ \A key \in KeysOf(baseWeights) \ KeysOf(telegramWeights) :
                        Lookup(table, key) = Num(Lookup(baseWeights, key))
             ELSE table = [k \in 1..Len(baseWeights) |->
                              <<baseWeights[k][1], Num(baseWeights[k][2])>>]

\* a bag was enriched in a Telegram environment and its table carries a key
\* the baseline lacks and a key the overrides lack
C12_Witness ==
    /\ enhanced # <<>>
    /\ detectTelegramEnvironment
    /\ HasKey(Lookup(enhanced[1], s__weights).v, s_plugins)
    /\ HasKey(Lookup(enhanced[1], s__weights).v, s_osCpu)
    /\ ~HasKey(baseWeights, s_plugins)
    /\ ~HasKey(telegramWeights, s_osCpu)

(***************************************************************************)
(* Claims about the features of a window (SpecCollector).                  *)
(***************************************************************************)
\* the requests that started a collection whose features have been emitted
Emitted == {r \in DOMAIN requests : requests[r].collector # NoCollector /\ requests[r].settled}

\* the window of the collection a request started
WindowOf(r) == collectors[requests[r].collector]

\* C13: a window without touch events yields a null touchPatterns and a
\* window without scroll samples a null scrollBehavior, whatever the window
\* holds of other kinds
C13_EmptyWindowsYieldNull ==
    \A r \in Emitted :
        /\ WindowOf(r).touchData = <<>> => requests[r].value.touchPatterns = Null
        /\ WindowOf(r).scrollData = <<>> => requests[r].value.scrollBehavior = Null

\* features were emitted for a window that holds motion samples only
C13_Witness ==
    \E r \in Emitted :
        /\ WindowOf(r).touchData = <<>>
        /\ WindowOf(r).scrollData = <<>>
        /\ WindowOf(r).motionData # <<>>
        /\ requests[r].value.motionSignature # Null

(***************************************************************************)
(* Claims about the enriched bag (SpecEnrich).                             *)
(***************************************************************************)
\* the two keys adjustSourceWeights writes
ReservedKeys == {s__weights, s__telegramContext}

\* no entry point changes the bag it is given
BagUntouched == [][components' = components]_vars

\* the copy carries the weight table and the context under the reserved
\* keys, and no key besides those and the keys of the bag
CopyCarriesTableAndContext(copy) ==
    /\ KeysOf(copy) = KeysOf(components) \cup ReservedKeys
    /\ Len(copy) = Cardinality(KeysOf(copy))
    /\ Lookup(copy, s__weights).t = "object"
    /\ KeysOf(Lookup(copy, s__weights).v)
          = KeysOf(baseWeights)
            \cup (IF detectTelegramEnvironment THEN KeysOf(telegramWeights) ELSE {})
    /\ Lookup(copy, s__telegramContext).t = "object"
    /\ KeysOf(Lookup(copy, s__telegramContext).v)
          = {s_isTelegramWebView, s_telegramVersion, s_webViewType,
             s_hasHapticFeedback, s_hasBehavioralData, s_networkQuality}

\* C14 as stated: the copy maps every key of the bag to the value the bag
\* holds for it
C14_CopyKeepsEveryKey ==
    \A i \in 1..Len(enhanced) :
        \A key \in KeysOf(components) :
            Lookup(enhanced[i], key) = Lookup(components, key)

\* C14: no entry point changes the caller's bag, and the enriched copy maps
\* every key of the bag other than _weights and _telegramContext to the value
\* the bag holds for it, in the bag's order, and carries the weight table and
\* the context under those two keys, in place of whatever the bag held there
C14_CopyKeepsCollaboratorKeys ==
    /\ BagUntouched
    /\ [](\A i \in 1..Len(enhanced) :
             /\ \A key \in KeysOf(components) \ ReservedKeys :
                   Lookup(enhanced[i], key) = Lookup(components, key)
             /\ SelectSeq(enhanced[i], LAMBDA e : e[1] \notin ReservedKeys)
                   = SelectSeq(components, LAMBDA e : e[1] \notin ReservedKeys)
             /\ CopyCarriesTableAndContext(enhanced[i]))

\* a bag of a component and a reserved entry was enriched, scored and
\* synthesized
C14_Witness ==
    /\ enhanced # <<>>
    /\ confidence # <<>>
    /\ fingerprint # <<>>
    /\ HasKey(components, s_canvas)
    /\ HasKey(components, s__weights)

(***************************************************************************)
(* Claims about the scorer on unexpected shapes (SpecMalformed).           *)
(***************************************************************************)
\* the component is absent or is no record
AbsentOrScalar(key) ==
    ~HasKey(components, key) \/ Lookup(components, key).t # "object"

\* the component is a record that lacks the field
LacksField(key, field) ==
    /\ HasKey(components, key)
    /\ Lookup(components, key).t = "object"
    /\ ~HasKey(Lookup(components, key).v, field)

\* C15: the scorer returns a result for every bag, never a fault, and the
\* factor of a component that is absent, null, undefined, a scalar or a record
\* lacking the fields the factor inspects is 0
C15_ScorerHasNoFailure ==
    \A i \in 1..Len(confidence) :
        /\ confidence[i] # TypeError
        /\ DOMAIN confidence[i]
              = {"score", "telegramAdjustment", "behavioralFactor", "webViewFactor",
                 "hapticFactor", "networkFactor", "stabilityScore"}
        /\ (AbsentOrScalar(s_behavioral)
              \/ (LacksField(s_behavioral, s_touchPatterns)
                    /\ LacksField(s_behavioral, s_motionSignature)))
              => confidence[i].behavioralFactor = 0
        /\ (AbsentOrScalar(s_webView)
              \/ LacksField(s_webView, s_isWebView) \/ LacksField(s_webView, s_webViewType))
              => confidence[i].webViewFactor = 0
        /\ (AbsentOrScalar(s_haptic)
              \/ LacksField(s_haptic, s_isAvailable) \/ LacksField(s_haptic, s_isTelegramHaptic))
              => confidence[i].hapticFactor = 0
        /\ (AbsentOrScalar(s_network)
              \/ LacksField(s_network, s_connectionInfo) \/ LacksField(s_network, s_ipBasedEntropy))
              => confidence[i].networkFactor = 0

\* a bag with a null behavioral component and a scalar webView was scored
C15_Witness ==
    /\ confidence # <<>>
    /\ HasKey(components, s_behavioral)
    /\ Lookup(components, s_behavioral) = Null
    /\ HasKey(components, s_webView)
    /\ Lookup(components, s_webView).t = "string"

(***************************************************************************)
(* Claims about the strategy beside a running collection (SpecConcurrent). *)
(***************************************************************************)
\* a step in which the scorer or the synthesizer returns
StrategyStep == confidence' # confidence \/ fingerprint' # fingerprint

\* C16: a call of the scorer or of the synthesizer changes neither the
\* collector (the module's collector, the windows and active flags, the
\* listeners, the timers, the queued jobs) nor the bag, and what it returns
\* does not depend on the collector: the scorer's result is the one the bag
\* yields in every later state of the collector, and all digests of the same
\* bag are equal, whether the module held a collector at the call or not
C16_StrategyApartFromCollector ==
    /\ [][StrategyStep =>
             UNCHANGED <<components, behavioralCollector, collectors, targets,
                         timers, microtasks, requests>>]_vars
    /\ [](\A i \in 1..Len(confidence) :
             confidence[i] = getEnhancedConfidenceScore(components))
    /\ [](\A i, j \in 1..Len(fingerprint) :
             fingerprint[i].input = fingerprint[j].input
                => fingerprint[i].digest = fingerprint[j].digest)

\* the bag was synthesized once with no collector held and once during a
\* collection, and it has been scored while a collection with a motion sample
\* in its window is running
C16_Witness ==
    /\ \E i, j \in 1..Len(fingerprint) :
          /\ fingerprint[i].during = NoCollector
          /\ fingerprint[j].during # NoCollector
    /\ confidence # <<>>
    /\ \E id \in timers : collectors[id].isActive /\ collectors[id].motionData # <<>>

(***************************************************************************)
(* Claims about the sample windows (SpecDelivery).                         *)
(***************************************************************************)
\* the events of the given types the browser dispatched while the collector
\* was active, in the order of dispatch
DeliveredTo(id, types) ==
    LET during == SelectSeq(dispatched.events,
                            LAMBDA d : id \in d.active /\ d.event.type \in types)
    IN [i \in 1..Len(during) |-> during[i].event]

\* the touch window holds the touch events, each once and in order
TouchWindowKept(id) ==
    collectors[id].touchData = DeliveredTo(id, {s_touchstart, s_touchmove, s_touchend})

\* the scroll window holds one sample per scroll event, in order
ScrollWindowKept(id) ==
    LET sent == DeliveredTo(id, {s_scroll})
        kept == collectors[id].scrollData
    IN /\ Len(kept) = Len(sent)
       /\ \A i \in 1..Len(sent) :
             /\ kept[i].timestamp = sent[i].timeStamp
             /\ kept[i].scrollY = sent[i].scrollY
             /\ kept[i].scrollX = sent[i].scrollX

\* the motion window holds one sample per motion event of the sequence, in order
MotionWindowHolds(id, sent) ==
    LET kept == collectors[id].motionData
    IN /\ Len(kept) = Len(sent)
       /\ \A i \in 1..Len(sent) :
             /\ kept[i].timestamp = sent[i].timeStamp
             /\ kept[i].acceleration = sent[i].accelerationIncludingGravity
             /\ kept[i].rotationRate = sent[i].rotationRate

\* C17 as stated: every touch, scroll and device-motion event delivered
\* while the collection is active is in the window of its kind, once and in
\* the order of delivery
C17_EveryEventKept ==
    \A id \in DOMAIN collectors :
        /\ TouchWindowKept(id)
        /\ ScrollWindowKept(id)
        /\ MotionWindowHolds(id, DeliveredTo(id, {s_devicemotion}))

\* C17: every touch and scroll event delivered while the collection is
\* active, and every device-motion event delivered then that carries an
\* accelerationIncludingGravity reading, is in the window of its kind, once
\* and in the order of delivery; a device-motion event without the reading
\* leaves no sample
C17_EveryReadingKept ==
    \A id \in DOMAIN collectors :
        /\ TouchWindowKept(id)
        /\ ScrollWindowKept(id)
        /\ MotionWindowHolds(id,
              SelectSeq(DeliveredTo(id, {s_devicemotion}),
                        LAMBDA e : e.accelerationIncludingGravity # Null))

\* a collection received two touch events of one type, and its window holds
\* them both, the earlier first
C17_Witness ==
    \E id \in DOMAIN collectors :
        /\ Len(DeliveredTo(id, {s_touchstart, s_touchmove, s_touchend})) = 2
        /\ Len(collectors[id].touchData) = 2
        /\ collectors[id].touchData[1].type = collectors[id].touchData[2].type
        /\ collectors[id].touchData[1].timeStamp < collectors[id].touchData[2].timeStamp

\* the three sample windows of a collector
Windows3(self) == <<self.touchData, self.scrollData, self.motionData>>

\* the features of a window under some draws of the placeholders
FeaturesOf(self) ==
    {[touchPatterns |-> analyzeTouchPatterns(self),
      scrollBehavior |-> analyzeScrollBehavior(self, bounce),
      timingFingerprint |-> analyzeTimingPatterns(self, delay),
      interactionRhythm |-> analyzeInteractionRhythm(self),
      motionSignature |-> analyzeMotionSignature(self),
      isCollecting |-> FALSE] : bounce \in RandomDraws, delay \in RandomDraws}

\* the step in which the timer of collector id expires
Expiry(id) == id \in timers /\ id \notin timers'

\* C18: a window changes only in the dispatch of an event to a collector that
\* is active with its timer pending; an event dispatched when the collector
\* is not active (none was started yet, or its timer expired) changes no
\* window; the expiry of the timer leaves the windows as they are and queues
\* the features of exactly those windows; and the features a collection
\* emitted are those of its window ever after
C18_WindowFrozenAtExpiry ==
    /\ [][\A id \in DOMAIN collectors :
             /\ Windows3(collectors'[id]) # Windows3(collectors[id])
                   => /\ collectors[id].isActive
                      /\ id \in timers
                      /\ dispatched'.events # dispatched.events
             /\ (dispatched'.events # dispatched.events /\ ~collectors[id].isActive)
                   => Windows3(collectors'[id]) = Windows3(collectors[id])
             /\ Expiry(id)
                   => /\ Windows3(collectors'[id]) = Windows3(collectors[id])
                      /\ ~collectors'[id].isActive
                      /\ microtasks'[1].value \in FeaturesOf(collectors[id])]_vars
    /\ [](\A r \in Emitted : requests[r].value \in FeaturesOf(WindowOf(r)))

\* a collection recorded a touch, its timer expired, an event was dispatched
\* after that, and the features emitted are those of the one touch
C18_Witness ==
    \E r \in Emitted :
        /\ Len(WindowOf(r).touchData) = 1
        /\ requests[r].value.touchPatterns # Null
        /\ \E i \in 1..Len(dispatched.events) :
              /\ requests[r].collector \notin dispatched.events[i].active
              /\ dispatched.events[i].event.timeStamp > WindowOf(r).touchData[1].timeStamp

\* the times of the samples in the windows of a collector
SampleTimes(self) ==
    {self.touchData[i].timeStamp : i \in 1..Len(self.touchData)}
       \cup {self.scrollData[i].timestamp : i \in 1..Len(self.scrollData)}
       \cup {self.motionData[i].timestamp : i \in 1..Len(self.motionData)}

\* the times of the events dispatched while the collector was active
TimesDuring(id) ==
    {dispatched.events[i].event.timeStamp :
        i \in {j \in 1..Len(dispatched.events) : id \in dispatched.events[j].active}}

\* C19: a collection starts on a collector of its own whose three windows
\* are empty, whatever the windows of the earlier collectors hold, and
\* starting it changes none of those; so the windows of a collection hold
\* samples of events dispatched during that collection only, no sample is in
\* the windows of two collections, and the features a collection emits are
\* those of its own windows
C19_CollectionsShareNoSample ==
    /\ [][Len(collectors') > Len(collectors)
             => /\ Len(collectors') = Len(collectors) + 1
                /\ Windows3(collectors'[Len(collectors')]) = << <<>>, <<>>, <<>> >>
                /\ behavioralCollector' = Len(collectors')
                /\ \A id \in DOMAIN collectors : collectors'[id] = collectors[id]]_vars
    /\ [](\A id \in DOMAIN collectors : SampleTimes(collectors[id]) \subseteq TimesDuring(id))
    /\ [](\A earlier \in DOMAIN collectors, later \in DOMAIN collectors :
             earlier < later
                => \A t \in SampleTimes(collectors[earlier]), u \in SampleTimes(collectors[later]) :
                      t < u)
    /\ [](\A r \in Emitted :
             /\ requests[r].value \in FeaturesOf(WindowOf(r))
             /\ Len(WindowOf(r).touchData) + Len(WindowOf(r).scrollData)
                   + Len(WindowOf(r).motionData)
                   = Cardinality(SampleTimes(WindowOf(r))))

\* two collections in sequence each recorded one touch and emitted the
\* features of that one touch
C19_Witness ==
    \E first \in Emitted, second \in Emitted :
        /\ requests[first].collector < requests[second].collector
        /\ Len(WindowOf(first).touchData) = 1
        /\ Len(WindowOf(second).touchData) = 1
        /\ WindowOf(first).touchData[1].timeStamp < WindowOf(second).touchData[1].timeStamp
        /\ requests[second].value \in FeaturesOf(collectors[requests[second].collector])
        /\ requests[second].value.touchPatterns # Null

(***************************************************************************)
(* Claims about the weighted tokens (SpecSynth).                           *)
(***************************************************************************)
\* the weight of a key in hundredths, read off the two literal tables: the
\* Telegram entry in Telegram, else the baseline entry, else 1.0
TableWeight(key) ==
    IF detectTelegramEnvironment /\ HasKey(telegramWeights, key)
    THEN Lookup(telegramWeights, key)
    ELSE IF HasKey(baseWeights, key) THEN Lookup(baseWeights, key) ELSE 100

\* max(1, round(weight * 10)): the tables hold tenths, so the product is whole
TokensFor(key) ==
    IF TableWeight(key) \div 10 >= 1 THEN TableWeight(key) \div 10 ELSE 1

\* the entries of a bag under non-reserved keys, in order
ComponentsOf(comps) == SelectSeq(comps, LAMBDA e : e[1] = <<>> \/ e[1][1] # "_")

\* the number of tokens due to the first n components
RECURSIVE TokensUpTo(_, _)
TokensUpTo(entries, n) ==
    IF n = 0 THEN 0 ELSE TokensUpTo(entries, n - 1) + TokensFor(entries[n][1])

ContextTokens(comps) ==
    LET app == ComponentOrNull(comps, s_telegramWebApp)
        view == ComponentOrNull(comps, s_webView)
        flag == IF Truthy(Get(app, s_isTelegramWebView))
                THEN StringOf(Get(app, s_isTelegramWebView)) ELSE s_false
        version == IF Truthy(Get(app, s_telegramVersion))
                   THEN StringOf(Get(app, s_telegramVersion)) ELSE s_unknown
        variant == IF Truthy(Get(view, s_webViewType))
                   THEN StringOf(Get(view, s_webViewType)) ELSE s_unknown
    IN << s_telegram \o <<":">> \o flag,
          s_version \o <<":">> \o version,
          s_webview \o <<":">> \o variant >>

\* the component whose token stands at a position of the list
OwnerOf(token, entries) ==
    {n \in 1..Len(entries) : startsWith(token, entries[n][1] \o <<":">>)}

\* C21: the list a call hashes ends with exactly three context tokens, the
\* flag, then the version ("unknown" when the bag reports none), then the
\* bridge variant; every token before them is the token of one component,
\* every component has a token, and the components follow one another in the
\* order of the bag, so the tokens of a key are contiguous
C21_ComponentsThenContext ==
    \A c \in 1..Len(fingerprint) :
        LET bag == fingerprint[c].input
            entries == ComponentsOf(bag)
            inputs == CHOOSE list \in {weightedInputsOf(bag)} : TRUE
            last == Len(inputs) - 3
        IN /\ last >= Len(entries)
           /\ SubSeq(inputs, last + 1, last + 3) = ContextTokens(bag)
           /\ \A i \in 1..last : Cardinality(OwnerOf(inputs[i], entries)) = 1
           /\ \A n \in 1..Len(entries) : \E i \in 1..last : OwnerOf(inputs[i], entries) = {n}
           /\ \A i, j \in 1..last :
                 i < j => \A m \in OwnerOf(inputs[i], entries), n \in OwnerOf(inputs[j], entries) :
                             m <= n
           /\ fingerprint[c].digest = simpleHash(join(inputs, <<"|">>))

\* in Telegram, a digest of a bag whose webView component reports the
\* variant and which reports no version, with the audio component first
C21_Witness ==
    /\ fingerprint # <<>>
    /\ detectTelegramEnvironment
    /\ Len(components) = 2
    /\ components[1][1] = s_audio
    /\ components[2][1] = s_webView
    /\ ContextTokens(components)[2] = s_version \o <<":">> \o s_unknown
    /\ ContextTokens(components)[3] = s_webview \o <<":">> \o s_telegram
    /\ Len(weightedInputsOf(components)) = 3 + 20 + 3

(***************************************************************************)
(* Claims about the digest (SpecHash).                                     *)
(***************************************************************************)
\* (h * 31 + char) modulo 2^32, on the 16-bit limbs <<high, low>> of h
Times31Plus(h, char) ==
    LET low == h[2] * 31 + char
        high == h[1] * 31 + low \div 65536
    IN <<high % 65536, low % 65536>>

\* the fold of the first n characters of a string, from 0
RECURSIVE Fold31(_, _)
Fold31(str, n) ==
    IF n = 0 THEN <<0, 0>> ELSE Times31Plus(Fold31(str, n - 1), CharCode[str[n]])

\* the magnitude of the 32-bit signed integer with the given limbs
MagnitudeOf(h) ==
    IF h[1] < 32768 THEN h
    ELSE IF h[2] = 0 THEN <<65536 - h[1], 0>>
    ELSE <<65535 - h[1], 65536 - h[2]>>

\* the number a string of at most four hexadecimal digits denotes
RECURSIVE HexValue(_, _)
HexValue(digits, n) ==
    IF n = 0 THEN 0
    ELSE 16 * HexValue(digits, n - 1)
         + (CHOOSE v \in 0..15 : HexDigits[v + 1] = digits[n]) 

\* the limbs of the number a string of at most eight hexadecimal digits
\* denotes
Denoted(digits) ==
    IF Len(digits) <= 4 THEN <<0, HexValue(digits, Len(digits))>>
    ELSE <<HexValue(SubSeq(digits, 1, Len(digits) - 4), Len(digits) - 4),
           HexValue(SubSeq(digits, Len(digits) - 3, Len(digits)), 4)>>

\* C22: the digest of a string is the lowercase hexadecimal numeral, without
\* a sign and without leading zeros, of the magnitude of the fold
\* h := (h * 31 + charCode) wrapped to 32 bits signed, from 0; the number it
\* denotes is between 0 and 2^31, and the digest of the empty string is "0"
C22_DigestIsFoldMagnitude ==
    \A c \in 1..Len(fingerprint) :
        LET str == fingerprint[c].input
            digest == fingerprint[c].digest
        IN /\ Len(digest) \in 1..8
           /\ \A i \in 1..Len(digest) : \E v \in 0..15 : HexDigits[v + 1] = digest[i]
           /\ Len(digest) > 1 => digest[1] # "0"
           /\ Denoted(digest) = MagnitudeOf(Fold31(str, Len(str)))
           /\ Denoted(digest)[1] <= 32768
           /\ Denoted(digest)[1] = 32768 => Denoted(digest)[2] = 0
           /\ str = <<>> => digest = <<"0">>

\* a digest of a string whose fold left 32 bits and ended negative
C22_Witness ==
    /\ fingerprint # <<>>
    /\ Len(fingerprint[1].input) = MaxChars
    /\ Fold31(fingerprint[1].input, MaxChars)[1] >= 32768
    /\ Len(fingerprint[1].digest) = 8

(***************************************************************************)
(* Claims about the factors and the bounds of the score (SpecScore).       *)
(***************************************************************************)
\* the bag holds the component, and the component holds a truthy field
Reports(key, field) ==
    /\ HasKey(components, key)
    /\ Lookup(components, key).t = "object"
    /\ HasKey(Lookup(components, key).v, field)
    /\ Truthy(Lookup(Lookup(components, key).v, field))

\* C23: each factor takes one of two values, decided by what its own
\* component holds and by nothing else: behavioralFactor is 0.2 exactly when
\* the behavioral component has touchPatterns or motionSignature, webViewFactor
\* 0.25 exactly when the webView component reports isWebView and a
\* webViewType that is 'telegram', hapticFactor 0.15 exactly when the haptic
\* component reports isAvailable and isTelegramHaptic, networkFactor 0.1
\* exactly when the network component has connectionInfo and ipBasedEntropy;
\* in Telegram and in a browser alike
C23_FactorsGatedOnStructure ==
    \A i \in 1..Len(confidence) :
        /\ confidence[i].behavioralFactor
              = (IF Reports(s_behavioral, s_touchPatterns) \/ Reports(s_behavioral, s_motionSignature)
                 THEN 200 ELSE 0)
        /\ confidence[i].webViewFactor
              = (IF /\ Reports(s_webView, s_isWebView)
                    /\ Reports(s_webView, s_webViewType)
                    /\ Lookup(Lookup(components, s_webView).v, s_webViewType) = Str(s_telegram)
                 THEN 250 ELSE 0)
        /\ confidence[i].hapticFactor
              = (IF Reports(s_haptic, s_isAvailable) /\ Reports(s_haptic, s_isTelegramHaptic)
                 THEN 150 ELSE 0)
        /\ confidence[i].networkFactor
              = (IF Reports(s_network, s_connectionInfo) /\ Reports(s_network, s_ipBasedEntropy)
                 THEN 100 ELSE 0)

\* in a browser, a bag was scored whose webView component earns its factor
\* while its haptic component, available but not Telegram's, and its network
\* component, without ipBasedEntropy, earn none
C23_Witness ==
    /\ confidence # <<>>
    /\ ~confidence[1].telegramAdjustment
    /\ confidence[1].webViewFactor = 250
    /\ Reports(s_haptic, s_isAvailable)
    /\ confidence[1].hapticFactor = 0
    /\ Reports(s_network, s_connectionInfo)
    /\ confidence[1].networkFactor = 0

(***************************************************************************)
(* Claims about the feature groups (SpecCollector).                        *)
(***************************************************************************)
\* the group is a record of exactly the given fields
IsRecordOf(group, fields) == group # Null /\ DOMAIN group = fields

\* the groups that are null for an empty window, and the shape of the
\* timing, rhythm and motion groups of a window that is not empty
GroupsOfWindow(r) ==
    LET value == requests[r].value
        samples == WindowOf(r)
    IN /\ samples.touchData = <<>>
             => /\ value.touchPatterns = Null
                /\ value.timingFingerprint = Null
                /\ value.interactionRhythm = Null
       /\ samples.scrollData = <<>> => value.scrollBehavior = Null
       /\ samples.motionData = <<>> => value.motionSignature = Null
       /\ samples.touchData # <<>>
             => /\ IsRecordOf(value.timingFingerprint,
                              {"averageReactionTime", "keyboardInputTiming", "scrollToTouchDelay",
                               "focusBlurPattern", "interactionInterval"})
                /\ IsRecordOf(value.interactionRhythm, {"pausePatterns", "interactionSequence"})
       /\ samples.motionData # <<>> => value.motionSignature # Null

\* C24 as stated: touchPatterns is a record whenever a touch event was
\* collected and scrollBehavior whenever a scroll sample was collected
C24_GroupNullOnlyIfEmpty ==
    \A r \in Emitted :
        /\ GroupsOfWindow(r)
        /\ WindowOf(r).touchData # <<>> => requests[r].value.touchPatterns # Null
        /\ WindowOf(r).scrollData # <<>> => requests[r].value.scrollBehavior # Null

\* C24: every group is null when the window of its kind is empty;
\* timingFingerprint and interactionRhythm are records whenever a touch event
\* was collected and motionSignature whenever a motion sample was; but
\* touchPatterns is a record exactly when some collected touch event carries
\* a touch point, and scrollBehavior exactly when two scroll samples or more
\* were collected
C24_GroupNullBelowPrerequisite ==
    \A r \in Emitted :
        /\ GroupsOfWindow(r)
        /\ IF \E i \in 1..Len(WindowOf(r).touchData) : WindowOf(r).touchData[i].touches # <<>>
           THEN IsRecordOf(requests[r].value.touchPatterns,
                           {"touchDuration", "touchFrequency", "gestureComplexity"})
           ELSE requests[r].value.touchPatterns = Null
        /\ IF Len(WindowOf(r).scrollData) >= 2
           THEN IsRecordOf(requests[r].value.scrollBehavior,
                           {"elasticBounceSignature", "scrollDirection"})
           ELSE requests[r].value.scrollBehavior = Null

\* features were emitted for a window of one scroll sample and one touchend
\* that left no finger on the surface: timing and rhythm are records, the
\* touch pattern and the scroll behaviour are null
C24_Witness ==
    \E r \in Emitted :
        /\ Len(WindowOf(r).scrollData) = 1
        /\ Len(WindowOf(r).touchData) = 1
        /\ WindowOf(r).touchData[1].touches = <<>>
        /\ requests[r].value.timingFingerprint # Null
        /\ requests[r].value.interactionRhythm # Null
        /\ requests[r].value.touchPatterns = Null
        /\ requests[r].value.scrollBehavior = Null

\* the touchstart events of the window of a request
TouchStartsOf(r) == OfType(WindowOf(r).touchData, s_touchstart)

\* C25 as stated: whenever the touch pattern is not null, touchFrequency is
\* the number of touchstart events of the window over the 3 seconds of the
\* window, also when a touchstart has no touchend to match
C25_FrequencyCountsTouchStarts ==
    \A r \in Emitted :
        requests[r].value.touchPatterns # Null
           => requests[r].value.touchPatterns.touchFrequency
                 = [num |-> Len(TouchStartsOf(r)), den |-> 3]

\* a window with one touchstart and no touchend has the touch frequency 0
C25_Witness ==
    \E r \in Emitted :
        /\ Len(TouchStartsOf(r)) = 1
        /\ OfType(WindowOf(r).touchData, s_touchend) = <<>>
        /\ requests[r].value.touchPatterns # Null
        /\ requests[r].value.touchPatterns.touchFrequency = [num |-> 0, den |-> 3]

(***************************************************************************)
(* Claims about the motion signature (SpecMotion).                         *)
(***************************************************************************)
\* the fraction is a number of [0, 1]
InUnitRange(fraction) ==
    fraction.den > 0 /\ 0 <= fraction.num /\ fraction.num <= fraction.den

\* C26 as stated: in every motion signature that is not null,
\* scrollStability, touchPrecision, gestureFlowness and movementEntropy each
\* lie in [0, 1], whatever touch, scroll and motion samples the window holds
C26_ProxiesWithinUnitRange ==
    \A r \in Emitted :
        requests[r].value.motionSignature # Null
           => /\ requests[r].value.motionSignature.scrollStability \in 0..1000
              /\ InUnitRange(requests[r].value.motionSignature.touchPrecision)
              /\ InUnitRange(requests[r].value.motionSignature.gestureFlowness)
              /\ InUnitRange(requests[r].value.motionSignature.movementEntropy)

\* a motion signature whose gestureFlowness is 1.5: three touchmove events
\* whose direction turns from up-left to down-left
C26_Witness ==
    \E r \in Emitted :
        /\ requests[r].value.motionSignature # Null
        /\ Len(WindowOf(r).touchData) = 3
        /\ requests[r].value.motionSignature.gestureFlowness = [num |-> 6, den |-> 4]
        /\ InUnitRange(requests[r].value.motionSignature.touchPrecision)
        /\ InUnitRange(requests[r].value.motionSignature.movementEntropy)

\* the platform bonus of the bag, in thousandths: 0.1 for iPhone and iPad,
\* 0.05 for Android
PlatformBonus ==
    LET platform == IF HasKey(components, s_platform)
                    THEN OrElse(Get(Lookup(components, s_platform), s_value),
                                Lookup(components, s_platform))
                    ELSE Null
    IN IF platform.t # "string" THEN 0
       ELSE IF includes(platform.v, s_iPhone) \/ includes(platform.v, s_iPad) THEN 100
       ELSE IF includes(platform.v, s_Android) THEN 50
       ELSE 0

\* C27: every score is at least 0.5, so the lower clamp at 0.1 is never the
\* result; outside Telegram the score is 0.5 plus the platform bonus plus
\* half of behavioralFactor + networkFactor, whatever webViewFactor and
\* hapticFactor are, and it lies in [0.5, 0.75], below the cap of 0.85
C27_LowerClampAndCapIdle ==
    \A i \in 1..Len(confidence) :
        /\ confidence[i].score >= 500
        /\ ~confidence[i].telegramAdjustment
              => /\ confidence[i].score
                       = 500 + PlatformBonus
                         + (confidence[i].behavioralFactor + confidence[i].networkFactor) \div 2
                 /\ confidence[i].score >= 500
                 /\ confidence[i].score <= 750
                 /\ confidence[i].score < 850

\* outside Telegram, a bag whose webView earns its factor reaches 0.75, the
\* most a browser score can be
C27_Witness ==
    /\ confidence # <<>>
    /\ ~confidence[1].telegramAdjustment
    /\ confidence[1].webViewFactor = 250
    /\ confidence[1].behavioralFactor = 200
    /\ confidence[1].networkFactor = 100
    /\ confidence[1].score = 750

(***************************************************************************)
(* The telegramWebApp probe (sources/webview.ts) and the bag it fills.     *)
(***************************************************************************)
\* detectTelegramEnvironment of the probe: the strategy's three tests and
\* window.TelegramWebviewProxy !== undefined
webview_detectTelegramEnvironment ==
    LET ua == toLowerCase(navigator.userAgent)
    IN \/ TestIgnoreCase(s_telegramwebview, ua)
       \/ TestIgnoreCase(s_telegram, ua)
       \/ HasWebApp
       \/ window.TelegramWebviewProxy

IsDigit(c) == \E k \in 1..Len(DecimalDigits) : DecimalDigits[k] = c

\* the length of the longest run of digits of s that starts at index i
DigitRun(s, i) ==
    CHOOSE n \in 0..(Len(s) + 1 - i) :
        /\ \A k \in 0..(n - 1) : IsDigit(s[i + k])
        /\ i + n > Len(s) \/ ~IsDigit(s[i + n])

\* /TelegramWebview\/(\d+\.\d+)/i matches ua at index i
VersionMatchAt(ua, i) ==
    LET from == i + Len(s_telegramwebview) + 1
        whole == DigitRun(ua, from)
    IN /\ OccursAt(toLowerCase(ua), s_telegramwebview \o <<"/">>, i)
       /\ whole >= 1
       /\ from + whole <= Len(ua)
       /\ ua[from + whole] = "."
       /\ from + whole + 1 <= Len(ua)
       /\ DigitRun(ua, from + whole + 1) >= 1

\* extractTelegramVersion: the first match's group; the WebApp objects of
\* Windows carry no version
extractTelegramVersion ==
    LET ua == navigator.userAgent
        matches == {i \in 1..Len(ua) : VersionMatchAt(ua, i)}
    IN IF matches = {} THEN Null
       ELSE LET i == CHOOSE m \in matches : \A o \in matches : m <= o
                from == i + Len(s_telegramwebview) + 1
                whole == DigitRun(ua, from)
                fraction == DigitRun(ua, from + whole + 1)
            IN Str(SubSeq(ua, from, from + whole + fraction))

\* getTelegramWebAppFingerprint(): the two fields of its result that the
\* strategy reads
getTelegramWebAppFingerprint ==
    LET isTelegramWebView == webview_detectTelegramEnvironment
    IN IF ~isTelegramWebView
       THEN Obj(<< <<s_isTelegramWebView, Bool(FALSE)>>, <<s_telegramVersion, Null>> >>)
       ELSE Obj(<< <<s_isTelegramWebView, Bool(TRUE)>>,
                   <<s_telegramVersion, extractTelegramVersion>> >>)

\* the probe runs in the environment and its result arrives in the bag
\* under the key telegramWebApp
GetTelegramWebAppFingerprint ==
    /\ ~HasKey(components, s_telegramWebApp)
    /\ components' = Append(components, <<s_telegramWebApp, getTelegramWebAppFingerprint>>)
    /\ UNCHANGED <<navigator, window, detected, confidence, fingerprint, enhanced>>
    /\ UNCHANGED collection

\* the probe and the three readers of the environment, in every environment,
\* on a bag that holds the probe's own result once the probe has run
InitProbe ==
    /\ navigator \in Navigators
    /\ window \in Windows
    /\ components = <<>>
    /\ NoResults
    /\ NoCollection

NextProbe ==
    \/ GetTelegramWebAppFingerprint
    \/ DetectTelegramEnvironment
    \/ CreateEnhancedComponents
    \/ CalculateEnhancedConfidence

SpecProbe == InitProbe /\ [][NextProbe]_vars

(***************************************************************************)
(* C28                                                                     *)
(***************************************************************************)
\* the bag holds a probe result that reports isTelegramWebView = true
ProbeReportsTelegram ==
    Get(ComponentOrNull(components, s_telegramWebApp), s_isTelegramWebView) = Bool(TRUE)

\* C28: whenever the telegramWebApp probe reports isTelegramWebView = true,
\* the strategy's detectTelegramEnvironment returns true in the same
\* environment, no confidence result has telegramAdjustment = false, and no
\* enriched copy whose context has isTelegramWebView = true carries the
\* baseline weight table
C28_DetectorsAgree ==
    /\ ProbeReportsTelegram =>
          /\ \A i \in 1..Len(detected) : detected[i]
          /\ \A i \in 1..Len(confidence) :
                confidence[i] # TypeError => confidence[i].telegramAdjustment
    /\ \A i \in 1..Len(enhanced) :
          Get(Lookup(enhanced[i], s__telegramContext), s_isTelegramWebView) = Bool(TRUE)
             => Lookup(enhanced[i], s__weights) # WeightsObject(baseWeights)

\* the probe reported Telegram through TelegramWebviewProxy alone, and the
\* strategy classified, scored and enriched the same bag as a browser's
C28_Witness ==
    /\ ProbeReportsTelegram
    /\ window.TelegramWebviewProxy
    /\ detected = <<FALSE>>
    /\ confidence # <<>> /\ confidence[1] # TypeError /\ ~confidence[1].telegramAdjustment
    /\ enhanced # <<>>
    /\ Get(Lookup(enhanced[1], s__telegramContext), s_isTelegramWebView) = Bool(TRUE)
    /\ Lookup(enhanced[1], s__weights) = WeightsObject(baseWeights)

(***************************************************************************)
(* C29                                                                     *)
(***************************************************************************)
\* the requests that started a collection of their own
RealRequests == {r \in DOMAIN requests : requests[r].collector # NoCollector}

\* the caller's continuation is the next job and will receive the result of a
\* collection
RealDeliveryNext ==
    /\ microtasks # <<>>
    /\ Head(microtasks).job = "deliver"
    /\ Head(microtasks).request \in RealRequests

\* a step in which that continuation runs and calls getBehavioralFingerprint()
ContinuationRequests ==
    /\ RealDeliveryNext
    /\ Len(requests') = Len(requests) + 1

\* C29: when the result of a real collection is delivered to the caller the
\* collector is already idle: the value delivered has isCollecting = false, the
\* reference to the active collection is null from the moment the delivery is
\* queued, a collector whose features were delivered is never the active one,
\* and a request made from the caller's continuation starts a new collection
\* rather than receiving the already-collecting answer
C29_IdleBeforeDelivery ==
    /\ [](RealDeliveryNext =>
             /\ behavioralCollector = NoCollector
             /\ ~Head(microtasks).value.isCollecting
             /\ Head(microtasks).value = requests[Head(microtasks).request].value)
    /\ [](\A r \in RealRequests :
             requests[r].delivered =>
                /\ behavioralCollector # requests[r].collector
                /\ ~requests[r].value.isCollecting)
    /\ [][ContinuationRequests =>
             LET new == requests'[Len(requests')]
             IN /\ new.collector = Len(collectors) + 1
                /\ new.collector = behavioralCollector'
                /\ ~new.settled
                /\ new.value # alreadyCollecting
                /\ collectors'[new.collector].isActive
                /\ timers' = timers \cup {new.collector}
                /\ requests'[Head(microtasks).request].delivered]_vars

\* the features of the first collection were delivered, and the request made
\* from that continuation runs a second collection
C29_Witness ==
    /\ Len(requests) = 2
    /\ requests[1].collector = 1 /\ requests[1].delivered
    /\ ~requests[1].value.isCollecting
    /\ requests[2].collector = 2 /\ ~requests[2].settled
    /\ behavioralCollector = 2
    /\ collectors[2].isActive
    /\ ~collectors[1].isActive

(***************************************************************************)
(* C30                                                                     *)
(***************************************************************************)
\* a collection is under way: a request started it and the promise returned
\* for it has not settled, which happens in the job that clears the collector
CollectionUnderWay == \E r \in RealRequests : ~requests[r].settled

\* C30: in every reachable state getBehavioralFingerprintSync returns the
\* five feature groups null and isCollecting = true exactly when a collection
\* is under way (from the request that started it to the clearing of the
\* collector after the timer expired), and a call of it changes only the
\* caller's copy of the result: not the collector reference, the collectors
\* and their windows, the listeners, the timers, the job queue or the requests
C30_SyncObservesOnly ==
    /\ [](getBehavioralFingerprintSync =
             [touchPatterns |-> Null, scrollBehavior |-> Null, timingFingerprint |-> Null,
              interactionRhythm |-> Null, motionSignature |-> Null,
              isCollecting |-> CollectionUnderWay])
    /\ [](microtasks = <<>> =>
             (getBehavioralFingerprintSync.isCollecting
                <=> /\ timers # {}
                    /\ \E id \in DOMAIN collectors : collectors[id].isActive))
    /\ [][observed' # observed =>
             /\ observed' = <<getBehavioralFingerprintSync>>
             /\ UNCHANGED <<behavioralCollector, collectors, targets, timers,
                            microtasks, requests, now, dispatched>>
             /\ UNCHANGED strategy]_vars

\* the observer was called during a collection that had collected a touch, and
\* the collection went on to deliver that touch's pattern
C30_Witness ==
    /\ observed # <<>>
    /\ observed[1].isCollecting
    /\ observed[1].touchPatterns = Null
    /\ requests # <<>>
    /\ requests[1].collector = 1
    /\ requests[1].delivered
    /\ requests[1].value.touchPatterns # Null
    /\ behavioralCollector = NoCollector

====
